---- MODULE Spec2Model ----
(***************************************************************************)
(* Snapshot store of zmek/play: the append-only train_departures table,    *)
(* change-detecting storeDeparture, the platform distribution queries, the *)
(* retention sweep and the HTTP handlers that drive them.                  *)
(*                                                                         *)
(* JavaScript values are modelled as strings; Null and Undefined are the   *)
(* two "absent" values.  Time is an integer clock; created_at is the clock *)
(* value at insert (CURRENT_TIMESTAMP has one-second resolution, so calls  *)
(* made before the clock advances share one created_at).                   *)
(***************************************************************************)
EXTENDS Integers, Sequences, FiniteSets, TLC

\* ------------------------------------------------------------------ bounds
MaxClock == 4
ShortClock == 1
MaxInserts == 3
TicksPerDay == 2
MaxInflight == 2
MaxRows == 1

\* -------------------------------------------------------- program constants
ThreeMonths == 3

Null == "null"
Undefined == "undefined"

\* ------------------------------------------------------------ state
\* inflight: the fetchAndStoreNextDeparture calls waiting at `await fetch(...)`,
\* each named by its caller
\* issued: the upstream's responses to such calls that have not yet reached
\* the server, in the order the upstream issued them
\* schema: the columns and indexes of the database file, and whether the
\* TrainDatabase constructor has returned on it
VARIABLES table, nextId, clock, lastOp, inflight, issued, schema

\* the operation name leads, so that two steps are told apart by it first
vars == <<lastOp.op, table, nextId, clock, lastOp, inflight, issued, schema>>

\* ------------------------------------------------------------ calendar
Dates == <<"2025-09-08", "2025-09-09", "2025-09-10", "2025-09-11", "2025-09-12",
           "2025-09-13", "2025-09-14", "2025-09-15", "2025-09-16", "2025-09-17",
           "2025-09-18", "2025-09-19", "2025-09-20", "2025-09-21", "2025-09-22",
           "2025-09-23", "2025-09-24", "2025-09-25", "2025-09-26", "2025-09-27",
           "2025-09-28">>

dayOrder == <<"Monday", "Tuesday", "Wednesday", "Thursday", "Friday", "Saturday", "Sunday">>

\* the server starts on Monday 2025-09-22, two weeks into the calendar table
\* calendar date (YYYY-MM-DD) of a clock value
DateOf(t) == Dates[15 + (t \div TicksPerDay)]

\* weekday name of a clock value
WeekdayOf(t) == dayOrder[((14 + (t \div TicksPerDay)) % 7) + 1]

\* weekday name of a date of the calendar table
WeekdayOfDate(date) == dayOrder[(((CHOOSE i \in 1..Len(Dates) : Dates[i] = date) - 1) % 7) + 1]

\* ------------------------------------------------------------ JS helpers
\* JavaScript truthiness of a string-or-absent value
Truthy(v) == v \notin {Null, Undefined, ""}

\* what better-sqlite3 binds for a JS value: undefined binds as NULL
Bind(v) == IF v = Undefined THEN Null ELSE v

RowsOf(seq) == {seq[i] : i \in 1..Len(seq)}

\* ------------------------------------------------------------ text
\* the characters of the strings of the model
Chars(s) ==
    CASE s = "0" -> <<"0">> []
         s = "1" -> <<"1">> []
         s = "2" -> <<"2">> []
         s = "4" -> <<"4">> []
         s = "5" -> <<"5">> []
         s = "10" -> <<"1", "0">> []
         s = "14:45" -> <<"1", "4", ":", "4", "5">> []
         s = "14:50" -> <<"1", "4", ":", "5", "0">> []
         s = "8:30" -> <<"8", ":", "3", "0">> []
         s = "08:30" -> <<"0", "8", ":", "3", "0">> []
         s = "23:59" -> <<"2", "3", ":", "5", "9">> []
         s = "24:00" -> <<"2", "4", ":", "0", "0">> []
         s = "25:99" -> <<"2", "5", ":", "9", "9">> []
         s = "25:00" -> <<"2", "5", ":", "0", "0">> []
         s = "invalid" -> <<"i", "n", "v", "a", "l", "i", "d">> []
         s = "TLH" -> <<"T", "L", "H">> []
         s = "RDG" -> <<"R", "D", "G">> []
         s = "Monday" -> <<"M", "o", "n", "d", "a", "y">> []
         s = "Tuesday" -> <<"T", "u", "e", "s", "d", "a", "y">> []
         s = "Wednesday" -> <<"W", "e", "d", "n", "e", "s", "d", "a", "y">> []
         s = "Thursday" -> <<"T", "h", "u", "r", "s", "d", "a", "y">> []
         s = "Friday" -> <<"F", "r", "i", "d", "a", "y">> []
         s = "Saturday" -> <<"S", "a", "t", "u", "r", "d", "a", "y">> []
         s = "Sunday" -> <<"S", "u", "n", "d", "a", "y">> []
         s = "Funday" -> <<"F", "u", "n", "d", "a", "y">> []
         s = "monday" -> <<"m", "o", "n", "d", "a", "y">>

Digits == <<"0", "1", "2", "3", "4", "5", "6", "7", "8", "9">>

Upper == <<"A", "B", "C", "D", "E", "F", "G", "H", "I", "J", "K", "L", "M",
           "N", "O", "P", "Q", "R", "S", "T", "U", "V", "W", "X", "Y", "Z">>

Lower == <<"a", "b", "c", "d", "e", "f", "g", "h", "i", "j", "k", "l", "m",
           "n", "o", "p", "q", "r", "s", "t", "u", "v", "w", "x", "y", "z">>

IndexIn(seq, c) == CHOOSE i \in 1..Len(seq) : seq[i] = c

\* character code (ASCII)
Code(c) ==
    CASE c \in RowsOf(Digits) -> 47 + IndexIn(Digits, c)
      [] c = ":" -> 58
      [] c \in RowsOf(Upper) -> 64 + IndexIn(Upper, c)
      [] c \in RowsOf(Lower) -> 96 + IndexIn(Lower, c)

RECURSIVE SeqLess(_, _)
\* lexicographic order of two character sequences by character code
SeqLess(x, y) ==
    IF y = <<>> THEN FALSE
    ELSE IF x = <<>> THEN TRUE
    ELSE IF Code(Head(x)) < Code(Head(y)) THEN TRUE
    ELSE IF Code(Head(x)) > Code(Head(y)) THEN FALSE
    ELSE SeqLess(Tail(x), Tail(y))

\* SQLite's default BINARY collation on TEXT values
TextLess(a, b) == SeqLess(Chars(a), Chars(b))

\* ------------------------------------------------------------ inputs
\* the snapshot of tests/test-database.js (14:45 to TLH, platform 4)
BaseDeparture ==
    [service_date |-> Dates[15], day_of_week |-> dayOrder[1], std |-> "14:45",
     etd |-> Null, departure_time |-> "14:45", platform |-> "4",
     destination |-> "TLH", operator |-> "GWR", is_cancelled |-> FALSE,
     delay_reason |-> Null]

\* departureData objects of direct callers: one service on two calendar days,
\* platform assigned, reassigned or not yet known
DepartureInputs ==
    {[BaseDeparture EXCEPT !.platform = p] : p \in {"4", "5", Null}}
    \cup {[BaseDeparture EXCEPT !.service_date = Dates[16], !.day_of_week = dayOrder[2]]}

\* the service on the two Mondays before the starting Monday and on that day,
\* and a second destination leaving at the same scheduled time
QueryInputs ==
    {[BaseDeparture EXCEPT !.service_date = Dates[1], !.platform = p] : p \in {"4", "5"}}
    \cup {[BaseDeparture EXCEPT !.service_date = Dates[8], !.platform = p] : p \in {"5", Null}}
    \cup {BaseDeparture}
    \cup {[BaseDeparture EXCEPT !.service_date = Dates[8], !.destination = "RDG"]}

\* departureData objects of the first revision's callers
Rev1Inputs ==
    {[departure_time |-> "14:45", platform |-> p, destination |-> "TLH",
      operator |-> "GWR", is_cancelled |-> FALSE, delay_reason |-> Null] :
        p \in {"4", "5"}}
    \cup {[departure_time |-> "14:50", platform |-> "4", destination |-> "TLH",
           operator |-> "GWR", is_cancelled |-> FALSE, delay_reason |-> Null]}

\* departureData objects that leave the date, the weekday or both to storeDeparture
WeekdayInputs ==
    {[BaseDeparture EXCEPT !.service_date = sd, !.day_of_week = dow] :
        sd \in {Undefined, Dates[15], Dates[16]}, dow \in {Undefined}}
    \cup {BaseDeparture, [BaseDeparture EXCEPT !.platform = "5"]}

\* departureData objects with and without a scheduled time value
MissingTimeInputs ==
    {[BaseDeparture EXCEPT !.std = Undefined, !.departure_time = Undefined,
                           !.etd = e, !.platform = p] :
        e \in {Undefined, "14:50"}, p \in {"4", "5"}}
    \cup {BaseDeparture, [BaseDeparture EXCEPT !.platform = "5"]}

\* one service seen on two Mondays, on time and delayed, beside services
\* with other scheduled times and another destination
AllServicesInputs ==
    {[BaseDeparture EXCEPT !.service_date = Dates[1]],
     [BaseDeparture EXCEPT !.service_date = Dates[8], !.etd = "14:50",
                           !.departure_time = "14:50"],
     [BaseDeparture EXCEPT !.service_date = Dates[8], !.platform = "5"],
     [BaseDeparture EXCEPT !.service_date = Dates[1], !.std = "8:30",
                           !.departure_time = "8:30", !.platform = "5"],
     [BaseDeparture EXCEPT !.service_date = Dates[8], !.destination = "RDG"]}

\* one service seen on two Mondays at platforms 4, 5 and 10
DistributionInputs ==
    {[BaseDeparture EXCEPT !.service_date = sd, !.platform = p] :
        sd \in {Dates[1], Dates[8]}, p \in {"4", "5", "10"}}

\* callers that pass a departure_time of their own, with and without an std
\* and an etd
EffectiveTimeInputs ==
    {[BaseDeparture EXCEPT !.std = t, !.departure_time = dt, !.etd = e] :
        t \in {"14:45", Undefined}, dt \in {"14:45", "8:30"},
        e \in {Null, Undefined, "14:50", "On time"}}

\* what the legacy caller passes (a departure_time, no std, no etd, no
\* service_date), beside the same service from a caller that passes std and etd
LegacyInputs ==
    {[BaseDeparture EXCEPT !.service_date = Undefined, !.day_of_week = Undefined,
                           !.std = Undefined, !.etd = Undefined,
                           !.departure_time = dt, !.platform = p] :
        dt \in {"14:45", "14:50"}, p \in {"4", Undefined}}
    \cup {[BaseDeparture EXCEPT !.etd = "14:50"]}

\* today's 14:45 and last Monday's, with and without a platform, and last
\* Monday's train to another destination
ReadOnlyInputs ==
    {BaseDeparture,
     [BaseDeparture EXCEPT !.service_date = Dates[8], !.platform = "5"],
     [BaseDeparture EXCEPT !.service_date = Dates[8], !.platform = Null],
     [BaseDeparture EXCEPT !.service_date = Dates[8], !.destination = "RDG"]}

\* one service on two Mondays, each captured with and without a platform
NullSlotInputs ==
    {[BaseDeparture EXCEPT !.service_date = Dates[1], !.platform = p] : p \in {"4", Null}}
    \cup {[BaseDeparture EXCEPT !.service_date = Dates[8], !.platform = p] : p \in {"5", Null}}

\* path parameters of the distribution request
DayParams == {"Monday", "Funday", "monday"}

StdParams == {"14:45", "8:30", "25:99", "25:00", "24:00", "invalid"}

\* departureData objects that differ from the base snapshot in one tracked field
DedupInputs ==
    {[BaseDeparture EXCEPT !.platform = p] : p \in {"4", "5", Null, Undefined}}
    \cup {[BaseDeparture EXCEPT !.operator = Undefined]}
    \cup {[BaseDeparture EXCEPT !.delay_reason = v] : v \in {"Signal failure", Undefined}}
    \cup {[BaseDeparture EXCEPT !.etd = v] : v \in {"14:50", Undefined}}
    \cup {[BaseDeparture EXCEPT !.is_cancelled = TRUE]}

\* ------------------------------------------------------------ storeDeparture
\* SQL "a = ?" : a comparison with NULL never matches
SqlEq(a, b) == a # Null /\ b # Null /\ a = b

service_date(d) == IF ~Truthy(d.service_date) THEN DateOf(clock) ELSE d.service_date

day_of_week(d) == IF ~Truthy(d.day_of_week) THEN WeekdayOf(clock) ELSE d.day_of_week

isCancelledInt(d) == IF d.is_cancelled THEN 1 ELSE 0

scheduledTime(d) == IF Truthy(d.std) THEN d.std ELSE d.departure_time

nextEtd(d) == IF Truthy(d.etd) THEN d.etd ELSE Null

nextDepartureTimeAsGiven(d) ==
    IF Truthy(d.departure_time) THEN d.departure_time ELSE scheduledTime(d)

nextDepartureTime(d) == IF Truthy(nextEtd(d)) THEN nextEtd(d) ELSE scheduledTime(d)

normalizeValueStrict(val) == val

normalizeValue(val) == IF val = Null \/ val = Undefined THEN Null ELSE val

identityRowsAnyDate(sd, dest, std) ==
    {r \in RowsOf(table) : /\ SqlEq(r.destination, Bind(dest))
                           /\ SqlEq(r.std, Bind(std))}

\* rows of one logical service: WHERE service_date = ? AND destination = ? AND std = ?
identityRows(sd, dest, std) ==
    {r \in RowsOf(table) : /\ SqlEq(r.service_date, Bind(sd))
                           /\ SqlEq(r.destination, Bind(dest))
                           /\ SqlEq(r.std, Bind(std))}

latestCandidatesAnyRow(rows) == rows

\* ORDER BY created_at DESC LIMIT 1: any row with the greatest created_at
\* (SQL leaves the order of rows with equal created_at unspecified)
latestCandidates(rows) == {r \in rows : \A q \in rows : q.created_at <= r.created_at}

\* const isRecent = latest && new Date(latest.created_at) > fiveMinutesAgo;
\* computed and not read again (a tick of the clock is longer than five
\* minutes: a snapshot is recent in the tick it was captured in)
isRecent(latest) == latest.created_at = clock

\* a comparison that lets a recent snapshot stand
hasChangeUnlessRecent(latest, d) ==
    /\ ~isRecent(latest)
    /\ \/ normalizeValue(latest.platform) # normalizeValue(d.platform)
       \/ normalizeValue(latest.operator) # normalizeValue(d.operator)
       \/ latest.is_cancelled # isCancelledInt(d)
       \/ normalizeValue(latest.delay_reason) # normalizeValue(d.delay_reason)
       \/ normalizeValue(latest.etd) # normalizeValue(nextEtd(d))
       \/ normalizeValue(latest.departure_time) # normalizeValue(nextDepartureTime(d))

hasChangeNoReason(latest, d) ==
    \/ normalizeValue(latest.platform) # normalizeValue(d.platform)
    \/ normalizeValue(latest.operator) # normalizeValue(d.operator)
    \/ latest.is_cancelled # isCancelledInt(d)
    \/ normalizeValue(latest.etd) # normalizeValue(nextEtd(d))
    \/ normalizeValue(latest.departure_time) # normalizeValue(nextDepartureTime(d))

hasChange(latest, d) ==
    \/ normalizeValue(latest.platform) # normalizeValue(d.platform)
    \/ normalizeValue(latest.operator) # normalizeValue(d.operator)
    \/ latest.is_cancelled # isCancelledInt(d)
    \/ normalizeValue(latest.delay_reason) # normalizeValue(d.delay_reason)
    \/ normalizeValue(latest.etd) # normalizeValue(nextEtd(d))
    \/ normalizeValue(latest.departure_time) # normalizeValue(nextDepartureTime(d))

newRowMaxRowid(d) ==
    [id |-> IF table = <<>> THEN 1 ELSE table[Len(table)].id + 1,
     service_date |-> service_date(d),
     day_of_week |-> day_of_week(d),
     departure_time |-> Bind(nextDepartureTime(d)),
     std |-> Bind(scheduledTime(d)),
     etd |-> Bind(nextEtd(d)),
     platform |-> Bind(d.platform),
     destination |-> Bind(d.destination),
     operator |-> Bind(d.operator),
     is_cancelled |-> isCancelledInt(d),
     delay_reason |-> Bind(d.delay_reason),
     created_at |-> clock,
     updated_at |-> clock]

\* the row INSERT INTO train_departures writes for d
newRow(d) ==
    [id |-> nextId,
     service_date |-> service_date(d),
     day_of_week |-> day_of_week(d),
     departure_time |-> Bind(nextDepartureTime(d)),
     std |-> Bind(scheduledTime(d)),
     etd |-> Bind(nextEtd(d)),
     platform |-> Bind(d.platform),
     destination |-> Bind(d.destination),
     operator |-> Bind(d.operator),
     is_cancelled |-> isCancelledInt(d),
     delay_reason |-> Bind(d.delay_reason),
     created_at |-> clock,
     updated_at |-> clock]

\* NOT NULL columns of the schema
violatesNotNull(row) ==
    row.service_date = Null \/ row.departure_time = Null \/ row.destination = Null

insertRowKeptOnError(d, ret) ==
    /\ ret = IF violatesNotNull(newRow(d)) THEN "error" ELSE "inserted"
    /\ nextId <= MaxInserts
    /\ table' = Append(table, newRow(d))
    /\ nextId' = nextId + 1

\* insert.run(...): appends one row, or throws on a constraint violation
insertRow(d, ret) ==
    IF violatesNotNull(newRow(d))
    THEN /\ ret = "error"
         /\ UNCHANGED <<table, nextId>>
    ELSE /\ ret = "inserted"
         /\ nextId <= MaxInserts
         /\ table' = Append(table, newRow(d))
         /\ nextId' = nextId + 1

StoreOutcomes == {"inserted", "unchanged", "error"}

\* storeDeparture that stamps updated_at on the latest snapshot when nothing changed
storeDepartureTouching(d, ret) ==
    LET rows == identityRows(service_date(d), d.destination, scheduledTime(d))
    IN  \/ /\ rows = {}
           /\ insertRow(d, ret)
        \/ \E latest \in latestCandidates(rows) :
             IF hasChange(latest, d)
             THEN insertRow(d, ret)
             ELSE /\ ret = "unchanged"
                  /\ table' = [i \in 1..Len(table) |->
                                 IF table[i].id = latest.id
                                 THEN [table[i] EXCEPT !.updated_at = clock]
                                 ELSE table[i]]
                  /\ UNCHANGED nextId

\* the effect of trainDB.storeDeparture(d) on the table; ret tells what it did
storeDeparture(d, ret) ==
    LET rows == identityRows(service_date(d), d.destination, scheduledTime(d))
    IN  \/ /\ rows = {}
           /\ insertRow(d, ret)
        \/ \E latest \in latestCandidates(rows) :
             IF hasChange(latest, d)
             THEN insertRow(d, ret)
             ELSE /\ ret = "unchanged"
                  /\ UNCHANGED <<table, nextId>>

\* a direct call of storeDeparture (the test scripts, legacy callers)
callStoreDeparture(d) ==
    /\ \E ret \in StoreOutcomes :
         /\ storeDeparture(d, ret)
         /\ lastOp' = [op |-> "storeDeparture", arg |-> d, ret |-> ret]
    /\ UNCHANGED <<clock, inflight, issued, schema>>

\* ------------------------------------------------------------ retention
cutoffLate == clock - ThreeMonths + 1

cutoff == clock - ThreeMonths

cleanupOldRecordsOneTickEarly ==
    /\ table' = SelectSeq(table, LAMBDA r : ~(r.created_at <= cutoff))
    /\ lastOp' = [op |-> "cleanupOldRecords", arg |-> <<>>,
                  ret |-> Cardinality({r \in RowsOf(table) : r.created_at <= cutoff})]
    /\ UNCHANGED <<nextId, clock, inflight, issued, schema>>

cleanupOldRecordsCountsKept ==
    /\ table' = SelectSeq(table, LAMBDA r : ~(r.created_at < cutoff))
    /\ lastOp' = [op |-> "cleanupOldRecords", arg |-> <<>>,
                  ret |-> Cardinality({r \in RowsOf(table) : ~(r.created_at < cutoff)})]
    /\ UNCHANGED <<nextId, clock, inflight, issued, schema>>

\* DELETE ... WHERE created_at < datetime('now', '-3 months'); return result.changes
cleanupOldRecords ==
    /\ table' = SelectSeq(table, LAMBDA r : ~(r.created_at < cutoff))
    /\ lastOp' = [op |-> "cleanupOldRecords", arg |-> <<>>,
                  ret |-> Cardinality({r \in RowsOf(table) : r.created_at < cutoff})]
    /\ UNCHANGED <<nextId, clock, inflight, issued, schema>>

\* ------------------------------------------------------------ queries
\* the local calendar date the queries call "today"
today == DateOf(clock)

\* ROW_NUMBER() OVER (PARTITION BY key ORDER BY created_at DESC) ... WHERE rn = 1
\* (key gives each row of q its partition):
\* every way of keeping, per partition, one row with the greatest created_at
rankOne(q, key) ==
    {pk \in SUBSET q :
        /\ \A r \in pk : r \in latestCandidates({x \in q : key[x] = key[r]})
        /\ \A r \in q : Cardinality({x \in pk : key[x] = key[r]}) = 1}

sortTextDescending(S) ==
    CHOOSE seq \in [1..Cardinality(S) -> S] :
        \A i, j \in 1..Cardinality(S) : i < j => TextLess(seq[j], seq[i])

\* a set of strings as the sequence ORDER BY gives
sortText(S) ==
    CHOOSE seq \in [1..Cardinality(S) -> S] :
        \A i, j \in 1..Cardinality(S) : i < j => TextLess(seq[i], seq[j])

\* SELECT platform, COUNT(*) ... GROUP BY platform ORDER BY platform
platformCounts(pk) ==
    LET ps == sortText({r.platform : r \in pk})
    IN  [i \in 1..Len(ps) |->
           [platform |-> ps[i], count |-> Cardinality({r \in pk : r.platform = ps[i]})]]

serviceDateKey(r) == r.service_date

lastKnownPlatformAnyDate(rows, serviceDate, std, destination) ==
    LET q == {r \in rows : /\ SqlEq(r.std, Bind(std))
                           /\ SqlEq(r.destination, Bind(destination))
                           /\ r.platform # Null}
    IN  IF q = {} THEN {Null} ELSE {r.platform : r \in latestCandidates(q)}

lastKnownPlatformAnyRow(rows, serviceDate, std, destination) ==
    LET q == {r \in rows : /\ SqlEq(r.service_date, Bind(serviceDate))
                           /\ SqlEq(r.std, Bind(std))
                           /\ SqlEq(r.destination, Bind(destination))}
    IN  IF q = {} THEN {Null} ELSE {r.platform : r \in latestCandidates(q)}

lastKnownPlatformNoGuard(rows, serviceDate, std, destination) ==
    LET q == {r \in rows : /\ SqlEq(r.service_date, Bind(serviceDate))
                           /\ SqlEq(r.std, Bind(std))
                           /\ SqlEq(r.destination, Bind(destination))
                           /\ r.platform # Null}
    IN  IF q = {} THEN {"TypeError"} ELSE {r.platform : r \in latestCandidates(q)}

\* getLastKnownPlatform: the values the SELECT ... LIMIT 1 can return
lastKnownPlatform(rows, serviceDate, std, destination) ==
    LET q == {r \in rows : /\ SqlEq(r.service_date, Bind(serviceDate))
                           /\ SqlEq(r.std, Bind(std))
                           /\ SqlEq(r.destination, Bind(destination))
                           /\ r.platform # Null}
    IN  IF q = {} THEN {Null} ELSE {r.platform : r \in latestCandidates(q)}

getLastKnownPlatform(serviceDate, std, destination) ==
    /\ \E res \in lastKnownPlatform(RowsOf(table), serviceDate, std, destination) :
         lastOp' = [op |-> "getLastKnownPlatform",
                    arg |-> <<serviceDate, std, destination>>, ret |-> res]
    /\ UNCHANGED <<table, nextId, clock, inflight, issued, schema>>

servicePlatformCountsEveryRow(rows, dayOfWeek, std, destination, excludeDate) ==
    {platformCounts({r \in rows : /\ SqlEq(r.day_of_week, Bind(dayOfWeek))
                                  /\ SqlEq(r.std, Bind(std))
                                  /\ SqlEq(r.destination, Bind(destination))
                                  /\ r.platform # Null
                                  /\ r.service_date # excludeDate})}

servicePlatformCountsRankFirst(rows, dayOfWeek, std, destination, excludeDate) ==
    LET q == {r \in rows : /\ SqlEq(r.day_of_week, Bind(dayOfWeek))
                           /\ SqlEq(r.std, Bind(std))
                           /\ SqlEq(r.destination, Bind(destination))
                           /\ r.service_date # excludeDate}
    IN  {platformCounts({r \in pk : r.platform # Null}) :
           pk \in rankOne(q, [r \in q |-> serviceDateKey(r)])}

\* latest revision: service = (day_of_week, std, destination), today excluded
servicePlatformCounts(rows, dayOfWeek, std, destination, excludeDate) ==
    LET q == {r \in rows : /\ SqlEq(r.day_of_week, Bind(dayOfWeek))
                           /\ SqlEq(r.std, Bind(std))
                           /\ SqlEq(r.destination, Bind(destination))
                           /\ r.platform # Null
                           /\ r.service_date # excludeDate}
    IN  {platformCounts(pk) : pk \in rankOne(q, [r \in q |-> serviceDateKey(r)])}

getServicePlatformCounts(dayOfWeek, std, destination) ==
    /\ \E res \in servicePlatformCounts(RowsOf(table), dayOfWeek, std, destination, today) :
         lastOp' = [op |-> "getServicePlatformCounts",
                    arg |-> <<dayOfWeek, std, destination>>, ret |-> res]
    /\ UNCHANGED <<table, nextId, clock, inflight, issued, schema>>

\* src/database.js revision: service = (day_of_week, std), no date excluded
servicePlatformCountsRev3(rows, dayOfWeek, std) ==
    LET q == {r \in rows : /\ SqlEq(r.day_of_week, Bind(dayOfWeek))
                           /\ SqlEq(r.std, Bind(std))
                           /\ r.platform # Null}
    IN  {platformCounts(pk) : pk \in rankOne(q, [r \in q |-> serviceDateKey(r)])}

getServicePlatformCountsRev3(dayOfWeek, std) ==
    /\ \E res \in servicePlatformCountsRev3(RowsOf(table), dayOfWeek, std) :
         lastOp' = [op |-> "getServicePlatformCountsRev3",
                    arg |-> <<dayOfWeek, std>>, ret |-> res]
    /\ UNCHANGED <<table, nextId, clock, inflight, issued, schema>>

\* COALESCE(std, departure_time)
scheduled_time(r) == IF r.std # Null THEN r.std ELSE r.departure_time

allServicesKey(r) == <<r.service_date, r.day_of_week, scheduled_time(r), r.destination>>

\* the CTE service_platforms: one group per
\* (day_of_week, scheduled_time, std, departure_time, platform, destination)
service_platforms(pk) ==
    LET G == {[day_of_week |-> r.day_of_week, scheduled_time |-> scheduled_time(r),
               std |-> r.std, departure_time |-> r.departure_time,
               destination |-> r.destination, platform |-> r.platform] : r \in pk}
    IN  {[day_of_week |-> g.day_of_week, scheduled_time |-> g.scheduled_time,
          std |-> g.std, departure_time |-> g.departure_time,
          destination |-> g.destination, platform |-> g.platform,
          count |-> Cardinality({r \in pk :
                        /\ r.day_of_week = g.day_of_week
                        /\ scheduled_time(r) = g.scheduled_time
                        /\ r.std = g.std
                        /\ r.departure_time = g.departure_time
                        /\ r.destination = g.destination
                        /\ r.platform = g.platform})] : g \in G}

\* ORDER BY day_of_week, scheduled_time, platform
orderedBefore(a, b) ==
    \/ TextLess(a.day_of_week, b.day_of_week)
    \/ /\ a.day_of_week = b.day_of_week
       /\ \/ TextLess(a.scheduled_time, b.scheduled_time)
          \/ /\ a.scheduled_time = b.scheduled_time
             /\ TextLess(a.platform, b.platform)

\* every sequence the ORDER BY allows (rows equal on the three keys come in any order)
orderings(G) ==
    {seq \in [1..Cardinality(G) -> G] :
        /\ \A g \in G : \E i \in 1..Cardinality(G) : seq[i] = g
        /\ \A i, j \in 1..Cardinality(G) : i < j => ~orderedBefore(seq[j], seq[i])}

\* `${row.day_of_week}_${row.scheduled_time}_${row.destination}`
\* (the fields of the model hold no underscore, so the key is the triple)
serviceKey(row) == <<row.day_of_week, row.scheduled_time, row.destination>>

RECURSIVE groupServices(_, _)
\* results.forEach(row => ...): services in order of first appearance
groupServices(results, services) ==
    IF results = <<>> THEN services
    ELSE LET row == Head(results)
             entry == [platform |-> row.platform, count |-> row.count]
             known == {i \in 1..Len(services) : services[i].key = serviceKey(row)}
         IN  IF known = {}
             THEN groupServices(Tail(results),
                    Append(services,
                           [key |-> serviceKey(row),
                            dayOfWeek |-> row.day_of_week,
                            scheduledTime |-> row.scheduled_time,
                            destination |-> row.destination,
                            platformCounts |-> <<entry>>,
                            totalDays |-> row.count]))
             ELSE LET i == CHOOSE k \in known : TRUE
                  IN  groupServices(Tail(results),
                        [services EXCEPT ![i].platformCounts = Append(@, entry),
                                         ![i].totalDays = @ + row.count])

\* dayOrder.indexOf(day), zero-based, -1 when absent
dayIndex(day) ==
    IF day \in RowsOf(dayOrder) THEN IndexIn(dayOrder, day) - 1 ELSE -1

\* collation weight of a character of a time string: punctuation before digits
collationWeight(c) == IF c = ":" THEN 0 ELSE Code(c)

RECURSIVE collate(_, _)
collate(x, y) ==
    IF x = <<>> /\ y = <<>> THEN 0
    ELSE IF x = <<>> THEN -1
    ELSE IF y = <<>> THEN 1
    ELSE IF collationWeight(Head(x)) < collationWeight(Head(y)) THEN -1
    ELSE IF collationWeight(Head(x)) > collationWeight(Head(y)) THEN 1
    ELSE collate(Tail(x), Tail(y))

\* a.localeCompare(b) on time strings
localeCompare(a, b) == collate(Chars(a), Chars(b))

\* the comparator of the final sort
compareServices(a, b) ==
    IF dayIndex(a.dayOfWeek) # dayIndex(b.dayOfWeek)
    THEN dayIndex(a.dayOfWeek) - dayIndex(b.dayOfWeek)
    ELSE localeCompare(a.scheduledTime, b.scheduledTime)

\* Array.prototype.sort with that comparator (stable)
sortServices(services) ==
    LET n == Len(services)
        f == CHOOSE g \in [1..n -> 1..n] :
               /\ \A i, j \in 1..n : i # j => g[i] # g[j]
               /\ \A i, j \in 1..n : i < j =>
                    LET c == compareServices(services[g[i]], services[g[j]])
                    IN  c < 0 \/ (c = 0 /\ g[i] < g[j])
    IN  [i \in 1..n |->
           [dayOfWeek |-> services[f[i]].dayOfWeek,
            scheduledTime |-> services[f[i]].scheduledTime,
            destination |-> services[f[i]].destination,
            platformCounts |-> services[f[i]].platformCounts,
            totalDays |-> services[f[i]].totalDays]]

\* latest revision: rows of today excluded
allServicesPlatformCounts(rows, excludeDate) ==
    LET q == {r \in rows : r.platform # Null /\ r.service_date # excludeDate}
    IN  {sortServices(groupServices(results, <<>>)) :
           results \in UNION {orderings(service_platforms(pk)) : pk \in rankOne(q, [r \in q |-> allServicesKey(r)])}}

getAllServicesPlatformCounts ==
    /\ \E res \in allServicesPlatformCounts(RowsOf(table), today) :
         lastOp' = [op |-> "getAllServicesPlatformCounts", arg |-> <<>>, ret |-> res]
    /\ UNCHANGED <<table, nextId, clock, inflight, issued, schema>>

\* src/database.js revision: no date excluded
allServicesPlatformCountsRev3(rows) ==
    LET q == {r \in rows : r.platform # Null}
    IN  {sortServices(groupServices(results, <<>>)) :
           results \in UNION {orderings(service_platforms(pk)) : pk \in rankOne(q, [r \in q |-> allServicesKey(r)])}}

getAllServicesPlatformCountsRev3 ==
    /\ \E res \in allServicesPlatformCountsRev3(RowsOf(table)) :
         lastOp' = [op |-> "getAllServicesPlatformCountsRev3", arg |-> <<>>, ret |-> res]
    /\ UNCHANGED <<table, nextId, clock, inflight, issued, schema>>

\* ------------------------------------------------------------ recent departures
\* an optional argument: <<>> when the caller passes none (null), else <<n>>
NoLimit == <<>>

\* SELECT * FROM train_departures ORDER BY created_at DESC: every order of
\* the rows the ORDER BY allows (rows of equal created_at come in any order)
orderedByCreatedAtDesc(rows) ==
    {seq \in [1..Cardinality(rows) -> rows] :
        /\ \A r \in rows : \E i \in 1..Cardinality(rows) : seq[i] = r
        /\ \A i, j \in 1..Cardinality(rows) : i < j => seq[i].created_at >= seq[j].created_at}

\* LIMIT n: a negative n means no limit
sqlLimit(seq, n) == IF n < 0 \/ n >= Len(seq) THEN seq ELSE SubSeq(seq, 1, n)

recentDeparturesDirty(rows, limit) ==
    {[i \in 1..Len(seq) |-> IF i = 1 THEN [seq[i] EXCEPT !.platform = Null] ELSE seq[i]] :
        seq \in orderedByCreatedAtDesc(rows)}

\* getRecentDepartures(limit = null): if (limit) { ... LIMIT ? } else { all rows }
recentDepartures(rows, limit) ==
    IF limit # NoLimit /\ limit[1] # 0
    THEN {sqlLimit(seq, limit[1]) : seq \in orderedByCreatedAtDesc(rows)}
    ELSE orderedByCreatedAtDesc(rows)

getRecentDepartures(limit) ==
    /\ \E res \in recentDepartures(RowsOf(table), limit) :
         lastOp' = [op |-> "getRecentDepartures", arg |-> limit, ret |-> res]
    /\ UNCHANGED <<table, nextId, clock, inflight, issued, schema>>

\* getServiceRecords: WHERE day_of_week = ? AND std = ? AND destination = ?
\* ORDER BY service_date DESC, created_at DESC (ISO dates: text order is date order)
serviceRecords(rows, dayOfWeek, std, destination) ==
    LET q == {r \in rows : /\ SqlEq(r.day_of_week, Bind(dayOfWeek))
                           /\ SqlEq(r.std, Bind(std))
                           /\ SqlEq(r.destination, Bind(destination))}
    IN  {seq \in [1..Cardinality(q) -> q] :
           /\ \A r \in q : \E i \in 1..Cardinality(q) : seq[i] = r
           /\ \A i, j \in 1..Cardinality(q) : i < j =>
                \/ IndexIn(Dates, seq[i].service_date) > IndexIn(Dates, seq[j].service_date)
                \/ /\ seq[i].service_date = seq[j].service_date
                   /\ seq[i].created_at >= seq[j].created_at}

getServiceRecords(dayOfWeek, std, destination) ==
    /\ \E res \in serviceRecords(RowsOf(table), dayOfWeek, std, destination) :
         lastOp' = [op |-> "getServiceRecords",
                    arg |-> <<dayOfWeek, std, destination>>, ret |-> res]
    /\ UNCHANGED <<table, nextId, clock, inflight, issued, schema>>

\* one row of getUniqueServices: the group of rows with the key of `bare`,
\* its aggregates, and std and departure_time as the row `bare` holds them
\* (bare columns of a GROUP BY come from one row of the group)
uniqueService(rows, bare) ==
    LET g == {r \in rows : serviceKey([day_of_week |-> r.day_of_week,
                                        scheduled_time |-> scheduled_time(r),
                                        destination |-> r.destination])
                           = serviceKey([day_of_week |-> bare.day_of_week,
                                         scheduled_time |-> scheduled_time(bare),
                                         destination |-> bare.destination])}
        first == CHOOSE r \in g : \A q \in g :
                     IndexIn(Dates, r.service_date) <= IndexIn(Dates, q.service_date)
        last == CHOOSE r \in g : \A q \in g :
                     IndexIn(Dates, r.service_date) >= IndexIn(Dates, q.service_date)
        oldest == CHOOSE r \in g : \A q \in g : r.created_at <= q.created_at
        newest == CHOOSE r \in g : \A q \in g : r.created_at >= q.created_at
    IN  [dayOfWeek |-> bare.day_of_week,
         scheduledTime |-> scheduled_time(bare),
         destination |-> bare.destination,
         totalRecords |-> Cardinality(g),
         firstSeen |-> first.service_date,
         lastSeen |-> last.service_date,
         firstCaptured |-> oldest.created_at,
         lastCaptured |-> newest.created_at,
         std |-> bare.std,
         departureTime |-> bare.departure_time]

\* ORDER BY day_of_week, scheduled_time, destination
uniqueServiceBefore(a, b) ==
    \/ TextLess(a.dayOfWeek, b.dayOfWeek)
    \/ /\ a.dayOfWeek = b.dayOfWeek
       /\ \/ TextLess(a.scheduledTime, b.scheduledTime)
          \/ /\ a.scheduledTime = b.scheduledTime
             /\ TextLess(a.destination, b.destination)

\* getUniqueServices: one entry per (day_of_week, scheduled_time, destination)
uniqueServices(rows) ==
    LET keys == {<<r.day_of_week, scheduled_time(r), r.destination>> : r \in rows}
        n == Cardinality(keys)
        entries == {uniqueService(rows, r) : r \in rows}
    IN  {seq \in [1..n -> entries] :
           \A i, j \in 1..n : i < j => uniqueServiceBefore(seq[i], seq[j])}

getUniqueServices ==
    /\ \E res \in uniqueServices(RowsOf(table)) :
         lastOp' = [op |-> "getUniqueServices", arg |-> <<>>, ret |-> res]
    /\ UNCHANGED <<table, nextId, clock, inflight, issued, schema>>

\* parseInt on a string of decimal digits
RECURSIVE parseInt(_)
parseInt(cs) ==
    IF cs = <<>> THEN 0
    ELSE 10 * parseInt(SubSeq(cs, 1, Len(cs) - 1)) + (IndexIn(Digits, cs[Len(cs)]) - 1)

\* GET /api/departures?limit=: req.query.limit ? parseInt(req.query.limit) : null
apiDepartures(limitParam) ==
    LET limit == IF Truthy(limitParam) THEN <<parseInt(Chars(limitParam))>> ELSE NoLimit
    IN  /\ \E res \in recentDepartures(RowsOf(table), limit) :
              lastOp' = [op |-> "GET /api/departures", arg |-> limitParam,
                         ret |-> [status |-> 200, departures |-> res, count |-> Len(res)]]
        /\ UNCHANGED <<table, nextId, clock, inflight, issued, schema>>

\* ------------------------------------------------------------ HTTP handlers
validDays == RowsOf(dayOrder)

hourPatternAnyTwoDigits(h) ==
    \/ Len(h) = 1 /\ h[1] \in RowsOf(Digits)
    \/ Len(h) = 2 /\ h[1] \in RowsOf(Digits) /\ h[2] \in RowsOf(Digits)

\* /^([0-1]?[0-9]|2[0-3]):[0-5][0-9]$/ on the characters of the hour part
hourPattern(h) ==
    \/ Len(h) = 1 /\ h[1] \in RowsOf(Digits)
    \/ Len(h) = 2 /\ h[1] \in {"0", "1"} /\ h[2] \in RowsOf(Digits)
    \/ Len(h) = 2 /\ h[1] = "2" /\ h[2] \in {"0", "1", "2", "3"}

timePattern(cs) ==
    LET n == Len(cs)
    IN  /\ n \in {4, 5}
        /\ hourPattern(SubSeq(cs, 1, n - 3))
        /\ cs[n - 2] = ":"
        /\ cs[n - 1] \in {"0", "1", "2", "3", "4", "5"}
        /\ cs[n] \in RowsOf(Digits)

\* sum of the counts of a platformCounts list
RECURSIVE totalDays(_)
totalDays(counts) ==
    IF counts = <<>> THEN 0 ELSE Head(counts).count + totalDays(Tail(counts))

\* GET /api/platforms/:dayOfWeek/:std/:destination?  (latest server revision)
apiPlatforms(dayOfWeek, std, destinationParam) ==
    LET destination == IF Truthy(destinationParam) THEN destinationParam ELSE "TLH"
    IN  /\ IF dayOfWeek \notin validDays
           THEN lastOp' = [op |-> "GET /api/platforms",
                           arg |-> <<dayOfWeek, std, destinationParam>>,
                           ret |-> [status |-> 400, error |-> "Invalid day of week", db |-> <<>>]]
           ELSE IF ~timePattern(Chars(std))
           THEN lastOp' = [op |-> "GET /api/platforms",
                           arg |-> <<dayOfWeek, std, destinationParam>>,
                           ret |-> [status |-> 400, error |-> "Invalid scheduled time format", db |-> <<>>]]
           ELSE \E res \in servicePlatformCounts(RowsOf(table), dayOfWeek, std, destination, today) :
                  lastOp' = [op |-> "GET /api/platforms",
                             arg |-> <<dayOfWeek, std, destinationParam>>,
                             ret |-> [status |-> 200, platformCounts |-> res,
                                      totalDays |-> totalDays(res),
                                      db |-> <<"getServicePlatformCounts">>]]
        /\ UNCHANGED <<table, nextId, clock, inflight, issued, schema>>

\* GET /api/platforms/:dayOfWeek/:std  (src/server.js revision)
apiPlatformsRev3(dayOfWeek, std) ==
    /\ IF dayOfWeek \notin validDays
       THEN lastOp' = [op |-> "GET /api/platforms Rev3", arg |-> <<dayOfWeek, std>>,
                       ret |-> [status |-> 400, error |-> "Invalid day of week", db |-> <<>>]]
       ELSE IF ~timePattern(Chars(std))
       THEN lastOp' = [op |-> "GET /api/platforms Rev3", arg |-> <<dayOfWeek, std>>,
                       ret |-> [status |-> 400, error |-> "Invalid scheduled time format", db |-> <<>>]]
       ELSE \E res \in servicePlatformCountsRev3(RowsOf(table), dayOfWeek, std) :
              lastOp' = [op |-> "GET /api/platforms Rev3", arg |-> <<dayOfWeek, std>>,
                         ret |-> [status |-> 200, platformCounts |-> res,
                                  totalDays |-> totalDays(res),
                                  db |-> <<"getServicePlatformCounts">>]]
    /\ UNCHANGED <<table, nextId, clock, inflight, issued, schema>>

\* ------------------------------------------------------------ ingestion
\* what the upstream request can come to: fetch() rejects, the response is
\* not OK, or it is OK with a body holding a list of departures
FetchFailures == {"network_error", "status_503"}

UpstreamServices ==
    {[std |-> "14:45", etd |-> e, platform |-> p, operator |-> "GWR",
      isCancelled |-> FALSE, delayReason |-> Null] :
        e \in {"On time", "14:50"}, p \in {"4", Undefined}}

UpstreamResponses ==
    {[outcome |-> f, departures |-> <<>>] : f \in FetchFailures \cup {"ok"}}
      \cup {[outcome |-> "ok", departures |-> <<[crs |-> "TLH", service |-> svc]>>] :
              svc \in UpstreamServices}

\* two services of the route, the 14:45 from platform 4 and the 15:10 from
\* platform 5, each announced with its platform or without one
FallbackResponses ==
    {[outcome |-> "ok",
      departures |-> <<[crs |-> "TLH",
                        service |-> [std |-> svc[1], etd |-> "On time", platform |-> svc[2],
                                     operator |-> "GWR", isCancelled |-> FALSE,
                                     delayReason |-> Null]]>>] :
        svc \in {<<"14:45", "4">>, <<"14:45", Undefined>>,
                 <<"15:10", "5">>, <<"15:10", Undefined>>}}

\* data.departure || data.departures?.[0] || null
firstDeparture(resp) == IF resp.departures = <<>> THEN <<>> ELSE <<Head(resp.departures)>>

\* the object fetchAndStoreNextDeparture hands to storeDeparture
departureData(departure) ==
    LET svc == departure.service
        late == Truthy(svc.etd) /\ svc.etd # "On time"
    IN  [service_date |-> today,
         day_of_week |-> WeekdayOf(clock),
         std |-> svc.std,
         etd |-> IF late THEN svc.etd ELSE Null,
         departure_time |-> IF late THEN svc.etd ELSE svc.std,
         platform |-> svc.platform,
         destination |-> IF Truthy(departure.crs) THEN departure.crs ELSE "Unknown",
         operator |-> svc.operator,
         is_cancelled |-> svc.isCancelled,
         delay_reason |-> svc.delayReason]

\* fetchAndStoreNextDeparture(from, to): ret is "threw" or "returned"
fetchAndStoreNextDeparture(resp, ret) ==
    IF resp.outcome \in FetchFailures
    THEN /\ ret = "threw"
         /\ UNCHANGED <<table, nextId>>
    ELSE IF firstDeparture(resp) = <<>>
    THEN /\ ret = "returned"
         /\ UNCHANGED <<table, nextId>>
    ELSE \E stored \in StoreOutcomes :
           /\ storeDeparture(departureData(firstDeparture(resp)[1]), stored)
           /\ ret = IF stored = "error" THEN "threw" ELSE "returned"

\* GET /api/next-train/:from/:to  (latest server revision)
apiNextTrain(resp) ==
    /\ \E ret \in {"threw", "returned"} :
         /\ fetchAndStoreNextDeparture(resp, ret)
         /\ IF ret = "threw"
            THEN lastOp' = [op |-> "GET /api/next-train", arg |-> resp,
                            ret |-> [status |-> 502, platform |-> Undefined,
                                     platformSource |-> Undefined]]
            ELSE IF firstDeparture(resp) = <<>>
            THEN lastOp' = [op |-> "GET /api/next-train", arg |-> resp,
                            ret |-> [status |-> 200, platform |-> Undefined,
                                     platformSource |-> Undefined]]
            ELSE LET departure == firstDeparture(resp)[1]
                 IN  IF Truthy(departure.service.platform)
                     THEN lastOp' = [op |-> "GET /api/next-train", arg |-> resp,
                                     ret |-> [status |-> 200,
                                              platform |-> departure.service.platform,
                                              platformSource |-> Undefined]]
                     ELSE \E known \in lastKnownPlatform(RowsOf(table'), today,
                                          departure.service.std, departure.crs) :
                            lastOp' = [op |-> "GET /api/next-train", arg |-> resp,
                                       ret |-> [status |-> 200,
                                                platform |-> IF Truthy(known) THEN known
                                                             ELSE departure.service.platform,
                                                platformSource |-> IF Truthy(known)
                                                                   THEN "last_known"
                                                                   ELSE Undefined]]
    /\ UNCHANGED <<clock, inflight, issued, schema>>

\* one poll cycle: fetchAndStoreNextDeparture(FROM_CRS, TO_CRS).catch(log)
pollCycle(resp) ==
    /\ \E ret \in {"threw", "returned"} :
         /\ fetchAndStoreNextDeparture(resp, ret)
         /\ lastOp' = [op |-> "poller", arg |-> resp, ret |-> ret]
    /\ UNCHANGED <<clock, inflight, issued, schema>>

\* ------------------------------------------------------------ event loop
\* The server is one Node.js process: a callback runs to its next await
\* before another starts.  fetchAndStoreNextDeparture waits at
\* `await fetch(...)`; everything after the response (including the
\* synchronous storeDeparture) runs in one piece.

\* what the upstream answers the server's calls with: a failure, a service
\* at platform 4 or without a platform, and a service without times
\* (storeDeparture raises on it)
ServerResponses ==
    {[outcome |-> "network_error", departures |-> <<>>]}
      \cup {[outcome |-> "ok",
              departures |-> <<[crs |-> "TLH",
                                service |-> [std |-> t, etd |-> "On time", platform |-> p,
                                             operator |-> "GWR", isCancelled |-> FALSE,
                                             delayReason |-> Null]]>>] :
               t \in {"14:45"}, p \in {"4", Undefined}}
      \cup {[outcome |-> "ok",
              departures |-> <<[crs |-> "TLH",
                                service |-> [std |-> Undefined, etd |-> "On time",
                                             platform |-> "4", operator |-> "GWR",
                                             isCancelled |-> FALSE, delayReason |-> Null]]>>]}

\* a call of fetchAndStoreNextDeparture by `caller` runs up to `await fetch(...)`
startFetch(caller, op) ==
    /\ Len(inflight) + Len(issued) < MaxInflight
    /\ inflight' = Append(inflight, caller)
    /\ lastOp' = [op |-> op, arg |-> <<>>, ret |-> <<>>]
    /\ UNCHANGED <<table, nextId, clock, issued, schema>>

pollStartUnlessFailed ==
    /\ ~(lastOp.op = "fetchSettles" /\ lastOp.ret = "threw")
    /\ startFetch("poller", "pollStart")

\* the poller: the kick-off in the app.listen callback and every firing of
\* setInterval(..., POLL_MS) start one call
pollStart == startFetch("poller", "pollStart")

\* GET /api/next-train/:from/:to arrives
requestStart == startFetch("request", "requestStart")

\* the fetch of the i-th waiting call settles with resp and the call runs to
\* its end: the poller's .catch logs a rejection, the handler's catch
\* answers 502 (appended: the rows the call added, for the record)
fetchSettles(i, resp) ==
    /\ i \in 1..Len(inflight)
    /\ \E ret \in {"threw", "returned"} :
         /\ fetchAndStoreNextDeparture(resp, ret)
         /\ lastOp' = [op |-> "fetchSettles",
                       arg |-> [by |-> inflight[i], resp |-> resp], ret |-> ret,
                       appended |-> Len(table') - Len(table)]
    /\ inflight' = [j \in 1..(Len(inflight) - 1) |->
                      IF j < i THEN inflight[j] ELSE inflight[j + 1]]
    /\ UNCHANGED <<clock, issued, schema>>

\* the upstream answers the i-th waiting call with resp: the response is on
\* its way to the server
upstreamIssues(i, resp) ==
    /\ i \in 1..Len(inflight)
    /\ issued' = Append(issued, [by |-> inflight[i], resp |-> resp])
    /\ inflight' = [j \in 1..(Len(inflight) - 1) |->
                      IF j < i THEN inflight[j] ELSE inflight[j + 1]]
    /\ lastOp' = [op |-> "upstreamIssues", arg |-> resp, ret |-> <<>>]
    /\ UNCHANGED <<table, nextId, clock, schema>>

\* the k-th response on the wire (counted in order of issue) reaches the
\* server, whatever was issued before it, and its call runs to its end
\* (pos: the place the response had in the order of issue, for the record)
responseArrives(k) ==
    /\ k \in 1..Len(issued)
    /\ \E ret \in {"threw", "returned"} :
         /\ fetchAndStoreNextDeparture(issued[k].resp, ret)
         /\ lastOp' = [op |-> "responseArrives", arg |-> issued[k], ret |-> ret,
                       pos |-> k]
    /\ issued' = [j \in 1..(Len(issued) - 1) |->
                    IF j < k THEN issued[j] ELSE issued[j + 1]]
    /\ UNCHANGED <<clock, inflight, schema>>

\* ------------------------------------------------------------ earliest revision
\* the row of the first schema (no service_date, day_of_week, std, etd)
newRowRev1(d, id) ==
    [id |-> id,
     departure_time |-> Bind(d.departure_time),
     platform |-> Bind(d.platform),
     destination |-> Bind(d.destination),
     operator |-> Bind(d.operator),
     is_cancelled |-> isCancelledInt(d),
     delay_reason |-> Bind(d.delay_reason),
     created_at |-> clock,
     updated_at |-> clock]

\* storeDeparture of the first revision as a function of the database state
\* st = [table, nextId, threw]: update the existing row, or insert
storeDepartureRev1(st, d) ==
    LET existing == {i \in 1..Len(st.table) :
                        /\ SqlEq(st.table[i].departure_time, Bind(d.departure_time))
                        /\ SqlEq(st.table[i].destination, Bind(d.destination))}
    IN  IF st.threw THEN st
        ELSE IF existing # {}
        THEN LET i == CHOOSE i \in existing : \A j \in existing : i <= j
             IN  [st EXCEPT !.table[i] =
                    [@ EXCEPT !.platform = Bind(d.platform),
                              !.operator = Bind(d.operator),
                              !.is_cancelled = isCancelledInt(d),
                              !.delay_reason = Bind(d.delay_reason),
                              !.updated_at = clock]]
        ELSE IF Bind(d.departure_time) = Null \/ Bind(d.destination) = Null
        THEN [st EXCEPT !.threw = TRUE]
        ELSE [st EXCEPT !.table = Append(@, newRowRev1(d, st.nextId)),
                        !.nextId = @ + 1]

callStoreDepartureRev1(d) ==
    LET st == storeDepartureRev1([table |-> table, nextId |-> nextId, threw |-> FALSE], d)
    IN  /\ st.nextId <= MaxInserts + 1
        /\ table' = st.table
        /\ nextId' = st.nextId
        /\ lastOp' = [op |-> "storeDeparture", arg |-> d,
                      ret |-> IF st.threw THEN "error" ELSE "stored"]
        /\ UNCHANGED <<clock, inflight, issued, schema>>

\* the object the first server revision hands to storeDeparture
departureDataRev1(departure) ==
    LET svc == departure.service
    IN  [departure_time |-> IF Truthy(svc.etd) /\ svc.etd # "On time" THEN svc.etd ELSE svc.std,
         platform |-> svc.platform,
         destination |-> IF Truthy(departure.crs) THEN departure.crs ELSE "Unknown",
         operator |-> svc.operator,
         is_cancelled |-> svc.isCancelled,
         delay_reason |-> svc.delayReason]

\* departures.forEach(departure => trainDB.storeDeparture({...}))
RECURSIVE storeEachRev1(_, _)
storeEachRev1(st, departures) ==
    IF departures = <<>> THEN st
    ELSE storeEachRev1(storeDepartureRev1(st, departureDataRev1(Head(departures))),
                       Tail(departures))

mockData ==
    [departures |-> <<[crs |-> "TLH",
                       service |-> [std |-> "14:45", etd |-> "On time",
                                    operator |-> "Great Western Railway", platform |-> "4",
                                    isCancelled |-> FALSE, delayReason |-> Null]]>>,
     mockData |-> TRUE]

\* GET /api/next-train/:from/:to of the first server revision
apiNextTrainRev1(resp) ==
    LET st0 == [table |-> table, nextId |-> nextId, threw |-> FALSE]
        tried == IF resp.outcome \in FetchFailures
                 THEN [st0 EXCEPT !.threw = TRUE]
                 ELSE storeEachRev1(st0, resp.departures)
        caught == storeEachRev1([tried EXCEPT !.threw = FALSE], mockData.departures)
        st == IF tried.threw THEN caught ELSE tried
    IN  /\ st.nextId <= MaxInserts + 1
        /\ table' = st.table
        /\ nextId' = st.nextId
        /\ lastOp' = [op |-> "GET /api/next-train", arg |-> resp,
                      ret |-> [status |-> 200, mockData |-> tried.threw]]
        /\ UNCHANGED <<clock, inflight, issued, schema>>

\* ------------------------------------------------------------ time
TickTo(limit) ==
    /\ clock < limit
    /\ clock' = clock + 1
    /\ lastOp' = [op |-> "tick", arg |-> <<>>, ret |-> <<>>]
    /\ UNCHANGED <<table, nextId, inflight, issued, schema>>

\* ------------------------------------------------------------ schema
\* the columns of the table as the first revision created it
OriginalColumns ==
    {"id", "departure_time", "platform", "destination", "operator", "is_cancelled",
     "delay_reason", "created_at", "updated_at"}

\* the columns of CREATE TABLE in init()
TableColumns == OriginalColumns \cup {"service_date", "day_of_week", "std", "etd"}

\* the indexes init() creates and the columns each is on
IndexColumns ==
    [idx_departure_time |-> {"departure_time"},
     idx_service_date_time |-> {"service_date", "departure_time"},
     idx_service_identity |-> {"service_date", "destination", "std"}]

\* a database file st = [columns, indexes, table, threw]; no columns: no table

\* CREATE TABLE IF NOT EXISTS train_departures (...)
createTable(st) ==
    IF st.columns = {} THEN [st EXCEPT !.columns = TableColumns] ELSE st

\* tryAddColumn: ALTER TABLE ... ADD COLUMN c TEXT, the error of an existing
\* column ignored; the rows already stored hold NULL in the new column
tryAddColumn(st, c) ==
    IF c \in st.columns THEN st
    ELSE [st EXCEPT !.columns = @ \cup {c},
                    !.table = [i \in 1..Len(st.table) |->
                                 [k \in DOMAIN st.table[i] \cup {c} |->
                                    IF k = c THEN Null ELSE st.table[i][k]]]]

\* db.exec(CREATE INDEX IF NOT EXISTS name ON train_departures(...)), not
\* reached once an earlier statement has thrown
createIndex(st, name) ==
    IF st.threw \/ name \in st.indexes THEN st
    ELSE IF IndexColumns[name] \subseteq st.columns
    THEN [st EXCEPT !.indexes = @ \cup {name}]
    ELSE [st EXCEPT !.threw = TRUE]

\* init(): the statements in the order of the code, each committed on its own
init(st) ==
    createIndex(
      createIndex(
        createIndex(tryAddColumn(tryAddColumn(createTable(st), "std"), "etd"),
                    "idx_departure_time"),
        "idx_service_date_time"),
      "idx_service_identity")

\* new TrainDatabase(): the constructor runs init() on the file as it is
openDatabase ==
    LET st == init([columns |-> schema.columns, indexes |-> schema.indexes,
                    table |-> table, threw |-> FALSE])
    IN  /\ schema' = [columns |-> st.columns, indexes |-> st.indexes, open |-> ~st.threw]
        /\ table' = st.table
        /\ lastOp' = [op |-> "TrainDatabase.init", arg |-> <<>>,
                      ret |-> IF st.threw THEN "threw" ELSE "ok"]
        /\ UNCHANGED <<nextId, clock, inflight, issued>>

\* trainDB.storeDeparture(d) on a database whose constructor has returned
storeWhenOpen(d) == schema.open /\ callStoreDeparture(d)

\* a row as each schema revision holds it
FileRow(i, columns) ==
    [k \in columns |->
        CASE k = "id" -> i
          [] k = "service_date" -> Dates[8]
          [] k = "day_of_week" -> dayOrder[1]
          [] k \in {"departure_time", "std"} -> "14:45"
          [] k = "platform" -> "4"
          [] k = "destination" -> "TLH"
          [] k = "operator" -> "GWR"
          [] k \in {"is_cancelled", "created_at", "updated_at"} -> 0
          [] OTHER -> Null]

\* the database files a server can be started on: none yet, one left by the
\* first revision, one with service_date and day_of_week but not yet std and
\* etd, and one of the current revision; each with up to MaxRows rows
DatabaseFiles ==
    {[columns |-> {}, indexes |-> {}, rows |-> 0]}
    \cup {[columns |-> cols, indexes |-> {"idx_departure_time"}, rows |-> n] :
            cols \in {OriginalColumns, TableColumns \ {"std", "etd"}}, n \in 0..MaxRows}
    \cup {[columns |-> TableColumns, indexes |-> DOMAIN IndexColumns, rows |-> n] :
            n \in 0..MaxRows}

\* ------------------------------------------------------------ specification
Init ==
    /\ table = <<>>
    /\ nextId = 1
    /\ clock = 0
    /\ lastOp = [op |-> "init", arg |-> <<>>, ret |-> <<>>]
    /\ inflight = <<>>
    /\ issued = <<>>
    /\ schema = [columns |-> TableColumns, indexes |-> DOMAIN IndexColumns, open |-> TRUE]

\* before the constructor runs, on any of the database files
InitFile ==
    /\ \E f \in DatabaseFiles :
         /\ schema = [columns |-> f.columns, indexes |-> f.indexes, open |-> FALSE]
         /\ table = [i \in 1..f.rows |-> FileRow(i, f.columns)]
         /\ nextId = f.rows + 1
    /\ clock = 0
    /\ lastOp = [op |-> "start", arg |-> <<>>, ret |-> <<>>]
    /\ inflight = <<>>
    /\ issued = <<>>

Tick == TickTo(MaxClock)

ShortTick == TickTo(ShortClock)

\* direct stores and the retention sweep of the latest revision
Next ==
    \/ \E d \in DepartureInputs : callStoreDeparture(d)
    \/ cleanupOldRecords
    \/ Tick

Spec == Init /\ [][Next]_vars

\* the ingestion paths of the latest revision: request handler and poller
NextIngest ==
    \/ \E resp \in UpstreamResponses : apiNextTrain(resp)
    \/ \E resp \in UpstreamResponses : pollCycle(resp)
    \/ ShortTick

SpecIngest == Init /\ [][NextIngest]_vars

\* change detection on one service, every tracked field varied
NextDedup ==
    \/ \E d \in DedupInputs : callStoreDeparture(d)
    \/ ShortTick

SpecDedup == Init /\ [][NextDedup]_vars

\* the queries of the latest revision and of src/database.js on one table
NextQuery ==
    \/ \E d \in QueryInputs : callStoreDeparture(d)
    \/ \E sd \in {Dates[1], Dates[8]} : getLastKnownPlatform(sd, "14:45", "TLH")
    \/ getServicePlatformCounts("Monday", "14:45", "TLH")
    \/ getServicePlatformCountsRev3("Monday", "14:45")
    \/ getAllServicesPlatformCounts
    \/ getAllServicesPlatformCountsRev3
    \/ ShortTick

SpecQuery == Init /\ [][NextQuery]_vars

\* every read and the sweep on tables with and without matching rows
NextAbsence ==
    \/ \E d \in {BaseDeparture,
                 [BaseDeparture EXCEPT !.service_date = Dates[8], !.platform = Null],
                 [BaseDeparture EXCEPT !.service_date = Dates[8], !.destination = "RDG"]} :
         callStoreDeparture(d)
    \/ \E sd \in {Dates[1], Dates[8]} : getLastKnownPlatform(sd, "14:45", "TLH")
    \/ getServicePlatformCounts("Monday", "14:45", "TLH")
    \/ getServicePlatformCountsRev3("Tuesday", "14:45")
    \/ getAllServicesPlatformCounts
    \/ getAllServicesPlatformCountsRev3
    \/ getRecentDepartures(NoLimit)
    \/ cleanupOldRecords
    \/ Tick

SpecAbsence == Init /\ [][NextAbsence]_vars

\* stores that derive service_date and day_of_week, and the poller
NextWeekday ==
    \/ \E d \in WeekdayInputs : callStoreDeparture(d)
    \/ \E resp \in UpstreamResponses : pollCycle(resp)
    \/ ShortTick

SpecWeekday == Init /\ [][NextWeekday]_vars

\* stores of updates that carry no scheduled time
NextMissingTime ==
    \/ \E d \in MissingTimeInputs : callStoreDeparture(d)
    \/ ShortTick

SpecMissingTime == Init /\ [][NextMissingTime]_vars

\* the all-services distribution beside the per-service one
NextAllServices ==
    \/ \E d \in AllServicesInputs : callStoreDeparture(d)
    \/ \E std \in {"14:45", "8:30"}, dest \in {"TLH", "RDG"} :
         getServicePlatformCounts("Monday", std, dest)
    \/ getAllServicesPlatformCounts
    \/ ShortTick

SpecAllServices == Init /\ [][NextAllServices]_vars

\* the per-service distribution of both revisions
NextDistribution ==
    \/ \E d \in DistributionInputs : callStoreDeparture(d)
    \/ getServicePlatformCounts("Monday", "14:45", "TLH")
    \/ getServicePlatformCountsRev3("Monday", "14:45")
    \/ ShortTick

SpecDistribution == Init /\ [][NextDistribution]_vars

\* the recent-departures listing, called directly and through its handler
NextRecent ==
    \/ \E d \in DepartureInputs : callStoreDeparture(d)
    \/ \E limit \in {NoLimit, <<0>>, <<1>>, <<2>>} : getRecentDepartures(limit)
    \/ \E limitParam \in {Undefined, "0", "2"} : apiDepartures(limitParam)
    \/ ShortTick

SpecRecent == Init /\ [][NextRecent]_vars

\* the distribution request handlers
NextHttp ==
    \/ \E d \in {BaseDeparture, [BaseDeparture EXCEPT !.service_date = Dates[1]]} :
         callStoreDeparture(d)
    \/ \E day \in DayParams, std \in StdParams, dest \in {Undefined, "RDG"} :
         apiPlatforms(day, std, dest)
    \/ \E day \in DayParams, std \in StdParams : apiPlatformsRev3(day, std)
    \/ ShortTick

SpecHttp == Init /\ [][NextHttp]_vars

\* src/server.js over src/database.js with the poller enabled: poll cycles
\* and requests in flight together, the query routes served between them
NextServer ==
    \/ pollStart
    \/ requestStart
    \/ \E i \in 1..MaxInflight, resp \in ServerResponses : fetchSettles(i, resp)
    \/ getRecentDepartures(NoLimit)
    \/ getServicePlatformCountsRev3("Monday", "14:45")
    \/ getAllServicesPlatformCountsRev3
    \/ ShortTick

SpecServer == Init /\ [][NextServer]_vars

\* the poller alone; timers fire and fetches settle
NextPoller ==
    \/ pollStart
    \/ \E i \in 1..MaxInflight, resp \in ServerResponses : fetchSettles(i, resp)
    \/ ShortTick

SpecPoller ==
    /\ Init /\ [][NextPoller]_vars
    /\ WF_vars(pollStart)
    /\ WF_vars(\E i \in 1..MaxInflight, resp \in ServerResponses : fetchSettles(i, resp))

\* the latest server left running for months: the poller stores, time
\* passes, and the setInterval of the sweep is commented out
NextUnswept ==
    \/ pollStart
    \/ \E i \in 1..MaxInflight, resp \in ServerResponses : fetchSettles(i, resp)
    \/ Tick

SpecUnswept ==
    /\ Init /\ [][NextUnswept]_vars
    /\ WF_vars(pollStart)
    /\ WF_vars(\E i \in 1..MaxInflight, resp \in ServerResponses : fetchSettles(i, resp))

\* src/server.js left running for months: setInterval calls the sweep every
\* 12 hours
NextSwept ==
    \/ pollStart
    \/ \E i \in 1..MaxInflight, resp \in ServerResponses : fetchSettles(i, resp)
    \/ cleanupOldRecords
    \/ Tick

SpecSwept ==
    /\ Init /\ [][NextSwept]_vars
    /\ WF_vars(pollStart)
    /\ WF_vars(\E i \in 1..MaxInflight, resp \in ServerResponses : fetchSettles(i, resp))
    /\ WF_vars(cleanupOldRecords)

\* stores whose departure_time argument disagrees with std and etd
NextEffectiveTime ==
    \/ \E d \in EffectiveTimeInputs : callStoreDeparture(d)
    \/ ShortTick

SpecEffectiveTime == Init /\ [][NextEffectiveTime]_vars

\* the per-service distribution over snapshots that lost their platform
NextNullSlot ==
    \/ \E d \in NullSlotInputs : callStoreDeparture(d)
    \/ getServicePlatformCounts("Monday", "14:45", "TLH")
    \/ getServicePlatformCountsRev3("Monday", "14:45")
    \/ ShortTick

SpecNullSlot == Init /\ [][NextNullSlot]_vars

\* requests for the next train over several days
NextFallback ==
    \/ \E resp \in FallbackResponses : apiNextTrain(resp)
    \/ Tick

SpecFallback == Init /\ [][NextFallback]_vars

\* storeDeparture beside every query method of the last two revisions
NextReadOnly ==
    \/ \E d \in ReadOnlyInputs : callStoreDeparture(d)
    \/ getRecentDepartures(NoLimit)
    \/ getServicePlatformCounts("Monday", "14:45", "TLH")
    \/ getAllServicesPlatformCounts
    \/ getServiceRecords("Monday", "14:45", "TLH")
    \/ getUniqueServices
    \/ getLastKnownPlatform(Dates[8], "14:45", "TLH")
    \/ getServicePlatformCountsRev3("Monday", "14:45")
    \/ getAllServicesPlatformCountsRev3
    \/ ShortTick

SpecReadOnly == Init /\ [][NextReadOnly]_vars

\* the server started, and started again, on a database file
NextSchema ==
    \/ openDatabase
    \/ \E d \in ReadOnlyInputs : storeWhenOpen(d)
    \/ ShortTick

SpecSchema == InitFile /\ [][NextSchema]_vars

\* a legacy caller beside a current one
NextLegacy ==
    \/ \E d \in LegacyInputs : callStoreDeparture(d)
    \/ ShortTick

SpecLegacy == Init /\ [][NextLegacy]_vars

\* the poller and a request against an upstream whose responses can overtake
\* one another on their way back
NextUpstream ==
    \/ pollStart
    \/ requestStart
    \/ \E i \in 1..MaxInflight, resp \in ServerResponses : upstreamIssues(i, resp)
    \/ \E k \in 1..MaxInflight : responseArrives(k)
    \/ ShortTick

SpecUpstream == Init /\ [][NextUpstream]_vars

\* the first revision: update-or-insert store, placeholder data on failure
NextRev1 ==
    \/ \E d \in Rev1Inputs : callStoreDepartureRev1(d)
    \/ \E resp \in UpstreamResponses : apiNextTrainRev1(resp)
    \/ cleanupOldRecords
    \/ Tick

SpecRev1 == Init /\ [][NextRev1]_vars

\* ============================================================ properties
\* snapshots of the logical service of row: same (service_date, destination, std)
SnapshotsOf(t, row) ==
    {r \in RowsOf(t) : /\ r.service_date = row.service_date
                       /\ r.destination = row.destination
                       /\ r.std = row.std}

\* two snapshots differ in a tracked field
DiffersTracked(r, q) ==
    \/ r.platform # q.platform
    \/ r.operator # q.operator
    \/ r.is_cancelled # q.is_cancelled
    \/ r.delay_reason # q.delay_reason
    \/ r.etd # q.etd
    \/ r.departure_time # q.departure_time

StoreStep == lastOp'.op = "storeDeparture"

\* C1: dedup idempotence.  For a service with no stored snapshot a call
\* appends exactly one row; a further call with the same tracked fields,
\* the service still holding that one row, appends nothing; a call that
\* differs from that row in a tracked field appends exactly one further row.
C1_DedupIdempotence ==
    [][StoreStep =>
        LET cand == newRow(lastOp'.arg)
            old == SnapshotsOf(table, cand)
            new == SnapshotsOf(table', cand)
        IN  /\ old = {} =>
                 Cardinality(new) = 1 /\ Len(table') = Len(table) + 1
            /\ (Cardinality(old) = 1 /\ \A r \in old : ~DiffersTracked(r, cand)) =>
                 table' = table
            /\ (Cardinality(old) = 1 /\ \E r \in old : DiffersTracked(r, cand)) =>
                 Cardinality(new) = 2 /\ Len(table') = Len(table) + 1]_vars

\* a second identical call found the one stored snapshot and appended nothing
C1_Witness ==
    /\ lastOp.op = "storeDeparture"
    /\ lastOp.ret = "unchanged"
    /\ Cardinality(SnapshotsOf(table, newRow(lastOp.arg))) = 1
    /\ \A r \in SnapshotsOf(table, newRow(lastOp.arg)) : ~DiffersTracked(r, newRow(lastOp.arg))

\* C2: identity stability under flapping.  A candidate is compared with the
\* immediately preceding snapshot of its service (the last one inserted), so
\* a call whose platform differs from that snapshot's, all other tracked
\* fields equal, appends a row: platform 4, then 5, then 4 leaves three rows.
C2_FlappingAppends ==
    [][StoreStep =>
        LET cand == newRow(lastOp'.arg)
            old == SnapshotsOf(table, cand)
        IN  old # {} =>
              LET prev == CHOOSE r \in old : \A q \in old : q.id <= r.id
              IN  (prev.platform # cand.platform
                     /\ ~DiffersTracked(prev, [cand EXCEPT !.platform = prev.platform]))
                  => Cardinality(SnapshotsOf(table', cand)) = Cardinality(old) + 1]_vars

\* an absent candidate value equals a stored NULL; a present one equals itself
AbsentEq(stored, cand) ==
    IF cand \in {Null, Undefined} THEN stored = Null ELSE stored = cand

\* C10: null-aware equality.  Against the one latest snapshot of the service,
\* a candidate whose platform, operator, delay_reason and etd are absent
\* where the snapshot holds NULL (and equal elsewhere) appends nothing; an
\* absent value against a present one, or the reverse, appends a row.
C10_NullAwareEquality ==
    [][StoreStep =>
        LET d == lastOp'.arg
            old == SnapshotsOf(table, newRow(d))
            top == {r \in old : \A q \in old : q.created_at <= r.created_at}
        IN  Cardinality(top) = 1 =>
              LET L == CHOOSE r \in top : TRUE
              IN  /\ ( /\ AbsentEq(L.platform, d.platform)
                       /\ AbsentEq(L.operator, d.operator)
                       /\ AbsentEq(L.delay_reason, d.delay_reason)
                       /\ AbsentEq(L.etd, d.etd)
                       /\ L.is_cancelled = (IF d.is_cancelled THEN 1 ELSE 0)
                       /\ L.departure_time = newRow(d).departure_time )
                     => table' = table
                  /\ ( \/ (L.platform = Null) # (d.platform \in {Null, Undefined})
                       \/ (L.operator = Null) # (d.operator \in {Null, Undefined})
                       \/ (L.delay_reason = Null) # (d.delay_reason \in {Null, Undefined})
                       \/ (L.etd = Null) # (d.etd \in {Null, Undefined}) )
                     => Len(table') = Len(table) + 1]_vars

\* a candidate with a missing platform met a stored NULL platform: no append
C10_Witness ==
    /\ lastOp.op = "storeDeparture"
    /\ lastOp.ret = "unchanged"
    /\ lastOp.arg.platform = Undefined
    /\ \E r \in SnapshotsOf(table, newRow(lastOp.arg)) : r.platform = Null

\* C7: retention.  Right after cleanupOldRecords no row older than now minus
\* three months remains, every other row is still there unchanged, and the
\* call returned the number of rows it removed.
C7_Retention ==
    [][lastOp'.op = "cleanupOldRecords" =>
        /\ \A r \in RowsOf(table') : r.created_at >= clock - ThreeMonths
        /\ \A r \in RowsOf(table) : r.created_at >= clock - ThreeMonths => r \in RowsOf(table')
        /\ RowsOf(table') \subseteq RowsOf(table)
        /\ lastOp'.ret = Len(table) - Len(table')]_vars

\* a sweep removed a row and kept the row captured exactly at the cutoff
C7_Witness ==
    /\ lastOp.op = "cleanupOldRecords"
    /\ lastOp.ret >= 1
    /\ \E r \in RowsOf(table) : r.created_at = clock - ThreeMonths

\* C3: append-only immutability.  Every operation but the retention sweep
\* leaves each stored row in place with the field values it was inserted
\* with, and the sweep only removes rows.
C3_AppendOnly ==
    [][/\ lastOp'.op # "cleanupOldRecords" =>
            /\ Len(table') >= Len(table)
            /\ \A i \in 1..Len(table) : table'[i] = table[i]
       /\ lastOp'.op = "cleanupOldRecords" =>
            RowsOf(table') \subseteq RowsOf(table)]_vars

\* the snapshots a distribution query of the service ranks: platform known
Qualifying(rows, dayOfWeek, std, destinations, excluded) ==
    {r \in rows : /\ r.day_of_week = dayOfWeek
                  /\ r.std = std
                  /\ r.destination \in destinations
                  /\ r.platform # Null
                  /\ r.service_date \notin excluded}

\* res counts every date of Q once, under the platform of one of that date's
\* snapshots with the greatest created_at
LatestPerDay(res, Q) ==
    LET dates == {r.service_date : r \in Q}
    IN  /\ totalDays(res) = Cardinality(dates)
        /\ \A i, j \in 1..Len(res) : i # j => res[i].platform # res[j].platform
        /\ \E f \in [dates -> {r.platform : r \in Q}] :
             /\ \A sd \in dates : \E r \in Q :
                  /\ r.service_date = sd
                  /\ r.platform = f[sd]
                  /\ \A q \in Q : q.service_date = sd => q.created_at <= r.created_at
             /\ \A i \in 1..Len(res) :
                  res[i].count = Cardinality({sd \in dates : f[sd] = res[i].platform})
             /\ \A sd \in dates : \E i \in 1..Len(res) : res[i].platform = f[sd]

\* C4: latest-per-day correctness.  In the result of getServicePlatformCounts
\* (both revisions) every qualifying service_date adds exactly 1 to exactly
\* one platform's count, the platform of that date's snapshot (with a known
\* platform) of greatest created_at; the counts sum to the number of
\* qualifying dates.
C4_LatestPerDay ==
    [][/\ lastOp'.op = "getServicePlatformCounts" =>
            LatestPerDay(lastOp'.ret,
                         Qualifying(RowsOf(table), lastOp'.arg[1], lastOp'.arg[2],
                                    {lastOp'.arg[3]}, {DateOf(clock)}))
       /\ lastOp'.op = "getServicePlatformCountsRev3" =>
            LatestPerDay(lastOp'.ret,
                         Qualifying(RowsOf(table), lastOp'.arg[1], lastOp'.arg[2],
                                    {r.destination : r \in RowsOf(table)}, {}))]_vars

\* platform 4 and later platform 5 captured for one date: counted once, under 5
C4_Witness ==
    /\ lastOp.op = "getServicePlatformCounts"
    /\ lastOp.ret = <<[platform |-> "5", count |-> 1]>>
    /\ \E r, q \in RowsOf(table) :
         /\ r.service_date = Dates[1] /\ q.service_date = Dates[1]
         /\ r.destination = "TLH" /\ q.destination = "TLH"
         /\ r.platform = "4" /\ q.platform = "5"
         /\ r.created_at < q.created_at

\* the rows not dated today
Historic(rows) == {r \in rows : r.service_date # DateOf(clock)}

\* C5: exclusion of the current day.  The results of getServicePlatformCounts
\* and getAllServicesPlatformCounts are results of the same query on the
\* table without the rows dated today: such rows contribute to no count.
C5_ExcludesToday ==
    [][/\ lastOp'.op = "getServicePlatformCounts" =>
            lastOp'.ret \in servicePlatformCounts(Historic(RowsOf(table)), lastOp'.arg[1],
                                                  lastOp'.arg[2], lastOp'.arg[3], "")
       /\ lastOp'.op = "getServicePlatformCountsRev3" =>
            lastOp'.ret \in servicePlatformCountsRev3(Historic(RowsOf(table)),
                                                      lastOp'.arg[1], lastOp'.arg[2])
       /\ lastOp'.op = "getAllServicesPlatformCounts" =>
            lastOp'.ret \in allServicesPlatformCounts(Historic(RowsOf(table)), "")
       /\ lastOp'.op = "getAllServicesPlatformCountsRev3" =>
            lastOp'.ret \in allServicesPlatformCountsRev3(Historic(RowsOf(table)))]_vars

\* C6: fallback resolution.  getLastKnownPlatform returns the platform of a
\* snapshot of exactly the given identity that has the greatest created_at
\* among those with a known platform, whatever newer snapshots without a
\* platform exist; it returns null exactly when the identity has no snapshot
\* with a known platform.
C6_LastKnownPlatform ==
    [][lastOp'.op = "getLastKnownPlatform" =>
        LET known == {r \in RowsOf(table) : /\ r.service_date = lastOp'.arg[1]
                                            /\ r.std = lastOp'.arg[2]
                                            /\ r.destination = lastOp'.arg[3]
                                            /\ r.platform # Null}
        IN  /\ (known = {}) <=> (lastOp'.ret = Null)
            /\ known # {} =>
                 \E r \in known : /\ r.platform = lastOp'.ret
                                  /\ \A q \in known : q.created_at <= r.created_at]_vars

\* the newest snapshot of the identity has no platform, an older one has 5
C6_Witness ==
    /\ lastOp.op = "getLastKnownPlatform"
    /\ lastOp.ret = "5"
    /\ \E r, q \in RowsOf(table) :
         /\ r.service_date = lastOp.arg[1] /\ q.service_date = lastOp.arg[1]
         /\ r.destination = "TLH" /\ q.destination = "TLH"
         /\ r.platform = "5" /\ q.platform = Null
         /\ r.created_at < q.created_at

\* C8: validation boundary.  A distribution request whose dayOfWeek is not
\* one of the seven weekday names, or whose std is not a 24-hour H:MM or
\* HH:MM time, is answered 400 and calls no method of the database.
C8_ValidationBoundary ==
    [][(/\ lastOp'.op \in {"GET /api/platforms", "GET /api/platforms Rev3"}
        /\ \/ lastOp'.arg[1] \notin {"Monday", "Tuesday", "Wednesday", "Thursday",
                                      "Friday", "Saturday", "Sunday"}
           \/ lastOp'.arg[2] \in {"25:99", "25:00", "24:00", "invalid"})
        => /\ lastOp'.ret.status = 400
           /\ lastOp'.ret.db = <<>>
           /\ table' = table]_vars

\* hour 25 on a valid weekday was rejected while the table holds rows
C8_Witness ==
    /\ lastOp.op = "GET /api/platforms"
    /\ lastOp.arg[1] = "Monday"
    /\ lastOp.arg[2] = "25:00"
    /\ lastOp.ret.status = 400
    /\ table # <<>>

\* C9: no fabricated data.  When the upstream fetch fails (network error or
\* non-OK status) in the poller or the /api/next-train handler, the table
\* is left unchanged and the handler reports the failure (502).
C9_NoFabricatedData ==
    [][(lastOp'.op \in {"GET /api/next-train", "poller"}
          /\ lastOp'.arg.outcome \in FetchFailures)
        => /\ table' = table
           /\ (lastOp'.op = "GET /api/next-train" => lastOp'.ret.status = 502)
           /\ (lastOp'.op = "poller" => lastOp'.ret = "threw")]_vars

\* the snapshots of a set with the greatest created_at
MostRecent(rows) == {r \in rows : \A q \in rows : q.created_at <= r.created_at}

\* C11: most-recent lookup.  The snapshot storeDeparture treats as the
\* current state of the candidate's identity is a row of that identity with
\* the maximum created_at: a call returns without appending only when such
\* a row equals the candidate in every tracked field, and appends for an
\* identity that has rows only when such a row differs from it; an identity
\* without rows has no current state, whatever other identities hold.
C11_MostRecentLookup ==
    [][StoreStep =>
        LET cand == newRow(lastOp'.arg)
            top == MostRecent(SnapshotsOf(table, cand))
        IN  /\ lastOp'.ret = "unchanged" => \E r \in top : ~DiffersTracked(r, cand)
            /\ lastOp'.ret = "inserted" => top = {} \/ \E r \in top : DiffersTracked(r, cand)]_vars

\* a call was found unchanged against the newest snapshot of its identity
\* while an older snapshot of it and a snapshot of another date differ
C11_Witness ==
    /\ lastOp.op = "storeDeparture"
    /\ lastOp.ret = "unchanged"
    /\ LET cand == newRow(lastOp.arg)
       IN  /\ \E r \in SnapshotsOf(table, cand) :
                 /\ r \notin MostRecent(SnapshotsOf(table, cand))
                 /\ DiffersTracked(r, cand)
           /\ \E r \in RowsOf(table) : r.service_date # cand.service_date

\* C12: absence is a normal result.  With no matching row (an empty table
\* included) getLastKnownPlatform returns null, getRecentDepartures,
\* getServicePlatformCounts and getAllServicesPlatformCounts return the
\* empty sequence, and cleanupOldRecords returns 0 and changes nothing; no
\* call ends in an error.
C12_AbsenceIsNormal ==
    [][LET rows == RowsOf(table)
           op == lastOp'.op
           arg == lastOp'.arg
       IN  /\ (op = "getLastKnownPlatform"
                 /\ ~\E r \in rows : /\ r.service_date = arg[1] /\ r.std = arg[2]
                                     /\ r.destination = arg[3])
               => lastOp'.ret = Null
           /\ (op = "getServicePlatformCounts"
                 /\ ~\E r \in rows : /\ r.day_of_week = arg[1] /\ r.std = arg[2]
                                     /\ r.destination = arg[3])
               => lastOp'.ret = <<>>
           /\ (op = "getServicePlatformCountsRev3"
                 /\ ~\E r \in rows : r.day_of_week = arg[1] /\ r.std = arg[2])
               => lastOp'.ret = <<>>
           /\ (op \in {"getAllServicesPlatformCounts", "getAllServicesPlatformCountsRev3"}
                 /\ ~\E r \in rows : r.platform # Null)
               => lastOp'.ret = <<>>
           /\ (op = "getRecentDepartures" /\ rows = {}) => lastOp'.ret = <<>>
           /\ (op = "cleanupOldRecords"
                 /\ ~\E r \in rows : r.created_at < clock - ThreeMonths)
               => lastOp'.ret = 0 /\ table' = table]_vars

\* the table holds rows, none of the identity asked for: the answer is null
C12_Witness ==
    /\ lastOp.op = "getLastKnownPlatform"
    /\ lastOp.ret = Null
    /\ table # <<>>
    /\ ~\E r \in RowsOf(table) : r.service_date = lastOp.arg[1]

\* C13: recent(limit).  getRecentDepartures returns rows in non-increasing
\* created_at order; without a limit every row of the table; with an
\* integer limit n >= 0 exactly min(n, number of rows) rows, none of them
\* captured before a row that is left out.
C13_RecentLimit ==
    [][lastOp'.op = "getRecentDepartures" =>
        LET res == lastOp'.ret
            limit == lastOp'.arg
            rows == RowsOf(table)
        IN  /\ \A i, j \in 1..Len(res) : i < j => res[i].created_at >= res[j].created_at
            /\ RowsOf(res) \subseteq rows
            /\ Cardinality(RowsOf(res)) = Len(res)
            /\ limit = NoLimit => Len(res) = Len(table)
            /\ limit # NoLimit =>
                 /\ Len(res) = (IF limit[1] < Len(table) THEN limit[1] ELSE Len(table))
                 /\ \A r \in RowsOf(res), q \in rows \ RowsOf(res) :
                      r.created_at >= q.created_at]_vars

\* C14: weekday consistency.  Every stored row has day_of_week equal to
\* the weekday name of its own service_date, also when the caller gave a
\* service_date and left day_of_week to storeDeparture.
C14_WeekdayConsistency ==
    \A r \in RowsOf(table) : r.day_of_week = WeekdayOfDate(r.service_date)

\* C15: missing scheduled time.  A call that supplies neither std nor a
\* legacy departure_time fails with an error and appends nothing, with or
\* without an etd; no stored row has a null std.
C15_MissingScheduledTime ==
    [][StoreStep =>
        /\ (~Truthy(lastOp'.arg.std) /\ ~Truthy(lastOp'.arg.departure_time))
             => (lastOp'.ret = "error" /\ table' = table)
        /\ \A r \in RowsOf(table') : r.std # Null]_vars

\* C16: every entry of getAllServicesPlatformCounts carries the list that
\* getServicePlatformCounts gives for that entry's weekday, scheduled time and
\* destination on the same table, and every service whose per-service list is
\* not empty has exactly one entry.
C16_AllServicesEqualsPerService ==
    [][lastOp'.op = "getAllServicesPlatformCounts" =>
        LET res == lastOp'.ret
            rows == RowsOf(table)
        IN  /\ \A i \in 1..Len(res) :
                 res[i].platformCounts \in
                     servicePlatformCounts(rows, res[i].dayOfWeek,
                                           res[i].scheduledTime, res[i].destination, today)
            /\ \A r \in rows :
                 servicePlatformCounts(rows, r.day_of_week, r.std, r.destination, today) # {<<>>}
                   => Cardinality({i \in 1..Len(res) :
                                     /\ res[i].dayOfWeek = r.day_of_week
                                     /\ res[i].scheduledTime = r.std
                                     /\ res[i].destination = r.destination}) = 1]_vars

\* the number a run of decimal digits denotes
RECURSIVE DecimalValue(_)
DecimalValue(ds) ==
    IF ds = <<>> THEN 0
    ELSE 10 * DecimalValue(SubSeq(ds, 1, Len(ds) - 1)) + (IndexIn(Digits, ds[Len(ds)]) - 1)

\* minutes after midnight of a scheduled time written H:MM or HH:MM
MinutesOfDay(t) ==
    LET cs == Chars(t)
        colon == IndexIn(cs, ":")
    IN  60 * DecimalValue(SubSeq(cs, 1, colon - 1))
          + DecimalValue(SubSeq(cs, colon + 1, Len(cs)))

\* C17: the sequence getAllServicesPlatformCounts returns is ordered by weekday
\* Monday..Sunday and, within one weekday, by scheduled time of day ascending,
\* for scheduled times written H:MM as well as HH:MM.
C17_AllServicesOrdering ==
    [][lastOp'.op = "getAllServicesPlatformCounts" =>
        LET res == lastOp'.ret
        IN  \A i, j \in 1..Len(res) : i < j =>
              \/ dayIndex(res[i].dayOfWeek) < dayIndex(res[j].dayOfWeek)
              \/ /\ dayIndex(res[i].dayOfWeek) = dayIndex(res[j].dayOfWeek)
                 /\ MinutesOfDay(res[i].scheduledTime) <= MinutesOfDay(res[j].scheduledTime)]_vars

\* C18: getServicePlatformCounts returns its pairs in ascending order of the
\* platform value, no platform in two pairs, every count at least 1.
C18_DistributionOrdering ==
    [][lastOp'.op \in {"getServicePlatformCounts", "getServicePlatformCountsRev3"} =>
        LET res == lastOp'.ret
        IN  /\ \A i, j \in 1..Len(res) : i < j => TextLess(res[i].platform, res[j].platform)
            /\ \A i \in 1..Len(res) : res[i].count >= 1]_vars

\* a distribution of two platforms whose text order is not their numeric order
C18_Witness ==
    /\ lastOp.op = "getServicePlatformCounts"
    /\ Len(lastOp.ret) = 2
    /\ lastOp.ret[1].platform = "10"
    /\ lastOp.ret[2].platform = "4"

\* C19: a sweep that directly follows a sweep (no insert, no advance of the
\* clock between them) returns 0 and leaves the table as the first left it;
\* a sweep on a table with no row older than the cutoff changes nothing and
\* returns 0.
C19_SweepRepeatable ==
    [][lastOp'.op = "cleanupOldRecords" =>
        /\ lastOp.op = "cleanupOldRecords"
              => (lastOp'.ret = 0 /\ table' = table)
        /\ (\A r \in RowsOf(table) : ~(r.created_at < cutoff))
              => (lastOp'.ret = 0 /\ table' = table)]_vars

\* a sweep that returned 0 on a table which an earlier sweep had shortened
\* and which still holds a row
C19_Witness ==
    /\ lastOp.op = "cleanupOldRecords"
    /\ lastOp.ret = 0
    /\ table # <<>>
    /\ Len(table) < nextId - 1

\* C20: a storeDeparture call either appends exactly one row, whose ten data
\* fields are all set from that call, or leaves the table unchanged; a call
\* that raises an error leaves it unchanged.
C20_NoPartialWrites ==
    [][StoreStep =>
        LET d == lastOp'.arg
            n == Len(table)
        IN  /\ \/ table' = table
               \/ /\ Len(table') = n + 1
                  /\ SubSeq(table', 1, n) = table
                  /\ table'[n + 1].service_date = service_date(d)
                  /\ table'[n + 1].day_of_week = day_of_week(d)
                  /\ table'[n + 1].departure_time = Bind(nextDepartureTime(d))
                  /\ table'[n + 1].std = Bind(scheduledTime(d))
                  /\ table'[n + 1].etd = Bind(nextEtd(d))
                  /\ table'[n + 1].platform = Bind(d.platform)
                  /\ table'[n + 1].destination = Bind(d.destination)
                  /\ table'[n + 1].operator = Bind(d.operator)
                  /\ table'[n + 1].is_cancelled = isCancelledInt(d)
                  /\ table'[n + 1].delay_reason = Bind(d.delay_reason)
            /\ lastOp'.ret = "error" => table' = table]_vars

\* a call that raised an error on a table that already holds rows
C20_Witness ==
    /\ lastOp.op = "storeDeparture"
    /\ lastOp.ret = "error"
    /\ table # <<>>

\* a poll cycle has just failed: its fetch failed or storeDeparture raised
PollerFailed ==
    /\ lastOp.op = "fetchSettles"
    /\ lastOp.arg.by = "poller"
    /\ lastOp.ret = "threw"

\* C21: with the poller enabled, a cycle whose fetch fails or whose
\* storeDeparture raises is followed by a further poll cycle.
C21_PollerResilience == PollerFailed ~> (lastOp.op = "pollStart")

\* a poll cycle failed because storeDeparture raised
C21_Witness ==
    /\ PollerFailed
    /\ lastOp.arg.resp.outcome = "ok"

\* the table holds a row captured more than three months ago
OldRowHeld == \E r \in RowsOf(table) : r.created_at < cutoff

\* C22: while the server runs, every row that has become older than three
\* months is eventually deleted, without any request being made.
C22_AutomaticCleanup == OldRowHeld ~> ~OldRowHeld

C24_EffectiveTime ==
    \A r \in RowsOf(table) :
        r.departure_time = IF r.etd # Null THEN r.etd ELSE r.std

\* a caller passed std 14:45 with departure_time 8:30 and no etd, and the row
\* was stored
C24_Witness ==
    /\ lastOp.op = "storeDeparture"
    /\ lastOp.ret = "inserted"
    /\ lastOp.arg.std = "14:45"
    /\ lastOp.arg.departure_time = "8:30"
    /\ lastOp.arg.etd = Null
    /\ table[Len(table)].departure_time = "14:45"

\* C25: ids are assigned in strictly increasing order: a row appended later
\* has a greater id than every row appended earlier, also than rows the
\* sweep has deleted since (nextId is one more than the greatest id ever
\* assigned).
C25_SurrogateKey ==
    [][/\ nextId' >= nextId
       /\ \A r \in RowsOf(table') : r.id < nextId'
       /\ \A i, j \in 1..Len(table') : i < j => table'[i].id < table'[j].id
       /\ (StoreStep /\ lastOp'.ret = "inserted") =>
             /\ table'[Len(table')].id >= nextId
             /\ \A r \in RowsOf(table) : r.id < table'[Len(table')].id]_vars

\* a row stored after the sweep had deleted every earlier row
C25_Witness ==
    /\ lastOp.op = "storeDeparture"
    /\ lastOp.ret = "inserted"
    /\ Len(table) = 1
    /\ table[1].id > 1

\* res, a distribution over the snapshots S of one service: no pair has a
\* null platform, a date all of whose snapshots lack a platform adds to no
\* count, and every other date is counted once, under the platform of one of
\* its most recent snapshots that have a platform
NullSlotsExcluded(res, S) ==
    LET known(sd) == {r \in S : r.service_date = sd /\ r.platform # Null}
        dates == {r.service_date : r \in S}
    IN  /\ \A i \in 1..Len(res) : res[i].platform # Null
        /\ totalDays(res) = Cardinality({sd \in dates : known(sd) # {}})
        /\ \A sd \in dates : known(sd) # {} =>
              \E i \in 1..Len(res), r \in MostRecent(known(sd)) : res[i].platform = r.platform

\* C26: getServicePlatformCounts drops the snapshots without a platform before
\* it ranks: a date whose latest snapshot lacks a platform is counted under
\* its most recent snapshot that has one, a date with no platform at all is
\* not counted, and no pair has a null platform.
C26_NullSlotExclusion ==
    [][/\ lastOp'.op = "getServicePlatformCounts" =>
            NullSlotsExcluded(lastOp'.ret,
                {r \in RowsOf(table) : /\ r.day_of_week = lastOp'.arg[1]
                                       /\ r.std = lastOp'.arg[2]
                                       /\ r.destination = lastOp'.arg[3]
                                       /\ r.service_date # today})
       /\ lastOp'.op = "getServicePlatformCountsRev3" =>
            NullSlotsExcluded(lastOp'.ret,
                {r \in RowsOf(table) : /\ r.day_of_week = lastOp'.arg[1]
                                       /\ r.std = lastOp'.arg[2]})]_vars

\* one date was captured at platform 5 and later without a platform, the
\* other only without a platform: the distribution is platform 5, once
C26_Witness ==
    /\ lastOp.op = "getServicePlatformCounts"
    /\ lastOp.ret = <<[platform |-> "5", count |-> 1]>>
    /\ \E r, q \in RowsOf(table) :
         /\ r.service_date = Dates[8] /\ q.service_date = Dates[8]
         /\ r.platform = "5" /\ q.platform = Null
         /\ r.created_at < q.created_at
    /\ \E r \in RowsOf(table) : r.service_date = Dates[1]
    /\ \A r \in RowsOf(table) : r.service_date = Dates[1] => r.platform = Null

\* what storeDeparture(d) can decide on the present table: TRUE for append
StoreDecisions(d) ==
    LET rows == identityRows(service_date(d), d.destination, scheduledTime(d))
    IN  IF rows = {} THEN {TRUE}
        ELSE {hasChange(latest, d) : latest \in latestCandidates(rows)}

\* C27: the sweep removes no row captured less than three months ago, and for
\* an identity whose latest snapshot is not older than the cutoff a call of
\* storeDeparture decides after the sweep as it would have decided before it.
C27_SweepKeepsDedup ==
    [][lastOp'.op = "cleanupOldRecords" =>
        /\ \A r \in RowsOf(table) :
             r.created_at >= clock - ThreeMonths => r \in RowsOf(table')
        /\ \A d \in DepartureInputs :
             (\E r \in identityRows(service_date(d), d.destination, scheduledTime(d)) :
                 r.created_at >= clock - ThreeMonths)
               => StoreDecisions(d)' = StoreDecisions(d)]_vars

\* a sweep removed an old snapshot of an identity and left its latest one,
\* captured exactly three months before
C27_Witness ==
    /\ lastOp.op = "cleanupOldRecords"
    /\ lastOp.ret >= 1
    /\ \E r \in RowsOf(table) :
         /\ r.service_date = Dates[15]
         /\ r.created_at = clock - ThreeMonths
         /\ r.id > 1

\* the identity a call of storeDeparture(d) is about
IdentityOf(d) == <<service_date(d), Bind(d.destination), Bind(scheduledTime(d))>>

\* C28: a call of storeDeparture leaves the rows of every other identity as
\* they are and does not change what a call for another identity will
\* decide; a call fails only for what it carries itself (a missing NOT NULL
\* value), never for rows of another identity.
C28_IdentityIsolation ==
    [][StoreStep =>
        LET d == lastOp'.arg
        IN  /\ \A e \in DepartureInputs : IdentityOf(e) # IdentityOf(d) =>
                 /\ identityRows(service_date(e), e.destination, scheduledTime(e))'
                      = identityRows(service_date(e), e.destination, scheduledTime(e))
                 /\ StoreDecisions(e)' = StoreDecisions(e)
            /\ lastOp'.ret = "error" => violatesNotNull(newRow(d))]_vars

\* a row was appended for Tuesday's service while Monday's already had two
\* snapshots
C28_Witness ==
    /\ lastOp.op = "storeDeparture"
    /\ lastOp.ret = "inserted"
    /\ lastOp.arg.service_date = Dates[16]
    /\ Cardinality({r \in RowsOf(table) : r.service_date = Dates[15]}) = 2

\* C29: storeDeparture runs as one step, so a poll cycle and a request that
\* were in flight together and settle one after the other with the same
\* upstream answer append at most one row between them.
C29_AtomicReadDecideAppend ==
    [][(/\ lastOp.op = "fetchSettles"
        /\ lastOp'.op = "fetchSettles"
        /\ lastOp'.arg.resp = lastOp.arg.resp
        /\ lastOp'.arg.by # lastOp.arg.by)
          => lastOp.appended + lastOp'.appended <= 1]_vars

\* C30: at most one fetchAndStoreNextDeparture call started by the poller is
\* in flight at any time.
C30_SingleActivePoller ==
    Cardinality({i \in 1..Len(inflight) : inflight[i] = "poller"}) <= 1

\* the snapshot of a non-empty set that was inserted last
LastInserted(rows) == CHOOSE r \in rows : \A q \in rows : q.id <= r.id

\* C31: the row storeDeparture takes as the latest of an identity is the row
\* inserted last for it, also when several of its rows share one created_at:
\* a call returns without appending exactly when that row equals the
\* candidate in every tracked field.
C31_LatestIsLastInsert ==
    [][StoreStep =>
        LET cand == newRow(lastOp'.arg)
            old == SnapshotsOf(table, cand)
        IN  old # {} =>
              /\ lastOp'.ret = "unchanged" => ~DiffersTracked(LastInserted(old), cand)
              /\ lastOp'.ret = "inserted" => DiffersTracked(LastInserted(old), cand)]_vars

\* C32: any two rows of one identity that are adjacent in insertion order
\* differ in at least one tracked field.
C32_NoAdjacentDuplicates ==
    \A r, q \in RowsOf(table) :
        (/\ r.id < q.id
         /\ q \in SnapshotsOf(table, r)
         /\ ~\E m \in SnapshotsOf(table, r) : r.id < m.id /\ m.id < q.id)
          => DiffersTracked(r, q)

\* C33: when two calls overlap and the response issued first arrives after
\* the response issued last, the identity's latest stored snapshot still
\* carries the data of the response issued last.
C33_NoStaleOverwrite ==
    [][(/\ lastOp.op = "responseArrives"
        /\ lastOp'.op = "responseArrives"
        /\ lastOp'.pos < lastOp.pos
        /\ lastOp.ret = "returned"
        /\ lastOp'.ret = "returned"
        /\ firstDeparture(lastOp.arg.resp) # <<>>
        /\ firstDeparture(lastOp'.arg.resp) # <<>>)
          => LET last == newRow(departureData(firstDeparture(lastOp.arg.resp)[1]))
             IN  ~DiffersTracked(LastInserted(SnapshotsOf(table', last)), last)]_vars

\* the service_dates of a service (weekday, scheduled time, destination) that
\* have a row with a platform, today's date left out
QualifyingDates(rows, e) ==
    {r.service_date : r \in {q \in rows :
        /\ q.platform # Null
        /\ q.service_date # today
        /\ q.day_of_week = e.dayOfWeek
        /\ scheduled_time(q) = e.scheduledTime
        /\ q.destination = e.destination}}

\* C34: in the result of getAllServicesPlatformCounts no two entries share
\* (dayOfWeek, scheduledTime, destination), no platform stands in two pairs of
\* one entry, and totalDays is the number of distinct qualifying service_dates
\* of the entry's service.
C34_AllServicesShape ==
    [][lastOp'.op = "getAllServicesPlatformCounts" =>
        LET res == lastOp'.ret
        IN  /\ \A i, j \in 1..Len(res) :
                 (/\ res[i].dayOfWeek = res[j].dayOfWeek
                  /\ res[i].scheduledTime = res[j].scheduledTime
                  /\ res[i].destination = res[j].destination) => i = j
            /\ \A i \in 1..Len(res) :
                 LET pc == res[i].platformCounts
                 IN  \A a, b \in 1..Len(pc) : pc[a].platform = pc[b].platform => a = b
            /\ \A i \in 1..Len(res) :
                 res[i].totalDays = Cardinality(QualifyingDates(RowsOf(table), res[i]))]_vars

\* a call of the legacy kind: a departure_time, no std, no etd
LegacyCall(d) == ~Truthy(d.std) /\ ~Truthy(d.etd) /\ Truthy(d.departure_time)

\* the rows of the identity (service_date, destination, departure_time) of a legacy call
LegacyIdentity(t, d) ==
    {r \in RowsOf(t) : /\ r.service_date = service_date(d)
                       /\ r.destination = d.destination
                       /\ r.std = d.departure_time}

\* C35: a storeDeparture call with a departure_time and neither std nor etd
\* stores std = departure_time, is decided against the rows of the identity
\* (service_date, destination, departure_time), and appends nothing when it
\* repeats the call before it.
C35_LegacyFallback ==
    [][(StoreStep /\ LegacyCall(lastOp'.arg)) =>
        LET d == lastOp'.arg
            old == LegacyIdentity(table, d)
        IN  /\ lastOp'.ret = "inserted" =>
                 /\ table'[Len(table')].std = d.departure_time
                 /\ table'[Len(table')].departure_time = d.departure_time
            /\ lastOp'.ret = "unchanged" =>
                 \E r \in old : ~DiffersTracked(r, newRow(d))
            /\ old = {} => lastOp'.ret # "unchanged"
            /\ (/\ lastOp.op = "storeDeparture"
                /\ lastOp.arg = d
                /\ lastOp.ret \in {"inserted", "unchanged"}) => table' = table]_vars

\* the platforms stored for today's snapshots of the service a response announces
StoredPlatforms(t, departure) ==
    {r.platform : r \in {q \in RowsOf(t) :
        /\ q.service_date = today
        /\ q.std = departure.service.std
        /\ q.destination = departure.crs
        /\ q.platform # Null}}

\* C36: GET /api/next-train answers with the live platform whenever the
\* update carries one; it answers with a stored platform, marked
\* platformSource 'last_known', exactly when the update carries none and a
\* platform is stored for today's snapshots of the same std and destination,
\* and that platform is one of those.
C36_FallbackDisplayValue ==
    [][(/\ lastOp'.op = "GET /api/next-train"
        /\ lastOp'.ret.status = 200
        /\ firstDeparture(lastOp'.arg) # <<>>) =>
        LET departure == firstDeparture(lastOp'.arg)[1]
            live == departure.service.platform
            stored == StoredPlatforms(table', departure)
            ret == lastOp'.ret
        IN  /\ Truthy(live) =>
                 ret.platform = live /\ ret.platformSource # "last_known"
            /\ ret.platformSource = "last_known" =>
                 ~Truthy(live) /\ ret.platform \in stored
            /\ (~Truthy(live) /\ stored = {}) =>
                 ret.platform = live /\ ret.platformSource # "last_known"
            /\ (~Truthy(live) /\ stored # {}) =>
                 ret.platformSource = "last_known"]_vars

\* the answer carries today's stored platform 4 of the 14:45 while the table
\* also holds platform 5 for another service or another date
C36_Witness ==
    /\ lastOp.op = "GET /api/next-train"
    /\ lastOp.ret.platformSource = "last_known"
    /\ lastOp.ret.platform = "4"
    /\ \E r \in RowsOf(table) :
         /\ r.platform = "5"
         /\ r.service_date # today \/ r.std # firstDeparture(lastOp.arg)[1].service.std

QueryOps ==
    {"getRecentDepartures", "getServicePlatformCounts", "getAllServicesPlatformCounts",
     "getServiceRecords", "getUniqueServices", "getLastKnownPlatform",
     "getServicePlatformCountsRev3", "getAllServicesPlatformCountsRev3"}

\* C37: the query methods leave the table and the row counter as they
\* were, and so does a storeDeparture call that detects no change.
C37_QueriesReadOnly ==
    [][(\/ lastOp'.op \in QueryOps
        \/ StoreStep /\ lastOp'.ret = "unchanged")
          => table' = table /\ nextId' = nextId]_vars

\* a call detected no change against a snapshot captured a tick earlier
C37_Witness ==
    /\ lastOp.op = "storeDeparture"
    /\ lastOp.ret = "unchanged"
    /\ \E r \in SnapshotsOf(table, newRow(lastOp.arg)) : r.created_at < clock

\* C38: init() on the database file of any schema revision completes
\* without error, keeps every stored row and every value in it, leaves the
\* table with every column of the current schema, and changes nothing on a
\* file that already has those columns and the three indexes.
C38_SchemaBackfill ==
    [][lastOp'.op = "TrainDatabase.init" =>
        /\ lastOp'.ret = "ok"
        /\ Len(table') = Len(table)
        /\ \A i \in 1..Len(table) : \A k \in DOMAIN table[i] : table'[i][k] = table[i][k]
        /\ TableColumns \subseteq schema'.columns
        /\ (TableColumns \subseteq schema.columns /\ schema.indexes = DOMAIN IndexColumns) =>
              /\ table' = table
              /\ schema'.columns = schema.columns
              /\ schema'.indexes = schema.indexes]_vars

\* the table with every snapshot captured k ticks earlier than it was
AgedBy(t, k) == [i \in 1..Len(t) |-> [t[i] EXCEPT !.created_at = @ - k]]

\* the decisions storeDeparture(d) can take on table t
DecisionsOn(t, d) ==
    LET old == SnapshotsOf(t, newRow(d))
    IN  IF old = {} THEN {"inserted"}
        ELSE {IF hasChange(latest, d) THEN "inserted" ELSE "unchanged" :
                latest \in latestCandidates(old)}

====
